---- MODULE Spec2Model ----
(***************************************************************************)
(* Model of the relayer proxy client of jito-solana                        *)
(* (core/src/proxy/relayer_stage.rs): the supervisor loop                  *)
(* RelayerStage::start, one connection attempt                             *)
(* (connect_auth_and_stream, start_consuming_relayer_packets) and the      *)
(* select loop of consume_packet_stream with handle_relayer_packets.       *)
(*                                                                         *)
(* Time is counted in whole seconds.  Instants are represented relative to *)
(* the present: Instant::now() is 0, an instant t seconds ago is -t, a     *)
(* deadline t seconds ahead is t; when a second passes every live instant  *)
(* moves one second into the past.  The environment (admin RPC, gossip     *)
(* identity, relayer server, downstream receivers, the clock) acts through *)
(* the actions of the last section.                                        *)
(***************************************************************************)
EXTENDS Integers, Sequences, FiniteSets, TLC

\* ------------------------------------------------------------------------
\* Bounds of the model
\* ------------------------------------------------------------------------
MaxLag == 2          \* instants older than this are no longer told apart
MaxMsgs == 2         \* messages the relayer sends on one subscription
MaxAttempts == 2     \* calls of connect_auth_and_stream
Far == 100           \* an expiry beyond every instant the model reaches
NumSerials == 3      \* serial numbers that tell the tokens of an attempt apart

\* ------------------------------------------------------------------------
\* Program constants
\* ------------------------------------------------------------------------
CONNECTION_BACKOFF_S == 5
METRICS_TICK == 1

\* Instant::now() / SystemTime::now()
now == 0

\* ------------------------------------------------------------------------
\* RelayerConfig
\* ------------------------------------------------------------------------
MkConfig(auth, backend, interval, oldest, trust) ==
    [auth_service_addr |-> auth, backend_addr |-> backend,
     expected_heartbeat_interval |-> interval,
     oldest_allowed_heartbeat |-> oldest, trust_packets |-> trust]

\* the configurations the admin surface installs in this model
Configs ==
    { MkConfig("https://auth", "https://relayer", 1, 1, FALSE),
      MkConfig("https://auth", "https://relayer", 1, 1, TRUE),
      MkConfig("", "https://relayer", 1, 1, FALSE),
      MkConfig("https://auth", "", 1, 1, FALSE),
      MkConfig("https://auth", "https://relayer", 1, 0, FALSE),
      MkConfig("https://auth", "https://relayer", 0, 1, FALSE) }

ValidateWithoutInterval(config) ==
    IF config.auth_service_addr = "" THEN FALSE
    ELSE IF config.backend_addr = "" THEN FALSE
    ELSE IF config.oldest_allowed_heartbeat = 0 THEN FALSE
    ELSE TRUE
validate_relayer_config(config) ==
    IF config.auth_service_addr = "" THEN FALSE
    ELSE IF config.backend_addr = "" THEN FALSE
    ELSE IF config.oldest_allowed_heartbeat = 0 THEN FALSE
    ELSE IF config.expected_heartbeat_interval = 0 THEN FALSE
    ELSE TRUE

\* Endpoint::from_shared: an empty string is not a URI
EndpointFromShared(addr) == addr # ""

\* validator identities
Keypairs == {"kpA", "kpB"}
Pubkey(kp) == IF kp = "kpA" THEN "idA" ELSE "idB"

NoConfig == MkConfig("", "", 0, 0, FALSE)
NoKeypair == "none"

\* ------------------------------------------------------------------------
\* ProxyError
\* ------------------------------------------------------------------------
Err(kind, msg) == [kind |-> kind, msg |-> msg]
ResultOk == [kind |-> "Ok", msg |-> ""]
NoResult == [kind |-> "NoResult", msg |-> ""]
AuthenticationPermissionDenied == Err("AuthenticationPermissionDenied", "")

\* ------------------------------------------------------------------------
\* Wire messages: relayer::SubscribePacketsResponse and proto packets
\* ------------------------------------------------------------------------
ProtoPacket(d) == [data |-> d, meta |-> [size |-> 1]]
ProtoBatches == { <<>>, <<ProtoPacket(1)>>, <<ProtoPacket(2), ProtoPacket(3)>> }

MsgHeartbeat == [msg |-> "Heartbeat", packets |-> <<>>]
MsgNone == [msg |-> "None", packets |-> <<>>]
MsgBatch(ps) == [msg |-> "Batch", packets |-> ps]
ServerMsgs == {MsgHeartbeat, MsgNone} \cup { MsgBatch(ps) : ps \in ProtoBatches }

\* what Streaming::message() yields: Ok(Some(resp)), Ok(None) or Err(status)
StreamSome(m) == [item |-> "Some", resp |-> m]
StreamEnd == [item |-> "End", resp |-> MsgNone]
StreamStatus == [item |-> "Status", resp |-> MsgNone]

proto_packet_to_packet(p) == [buffer |-> p.data, size |-> p.meta.size]

PacketBatchNew(ps) == [ i \in 1..Len(ps) |-> proto_packet_to_packet(ps[i]) ]

\* ------------------------------------------------------------------------
\* get_tpu_configs responses and std::net parsing
\* ------------------------------------------------------------------------
NoSocket == [ip |-> <<>>, port |-> 0]
TpuConfigResponses ==
    { [tpu |-> <<[ip |-> <<10, 0, 0, 1>>, port |-> 8001]>>,
       tpu_forward |-> <<[ip |-> <<10, 0, 0, 1>>, port |-> 65536 + 8002]>>],
      [tpu |-> <<>>,
       tpu_forward |-> <<[ip |-> <<10, 0, 0, 1>>, port |-> 8002]>>],
      [tpu |-> <<[ip |-> <<10, 0, 0, 1>>, port |-> 8001]>>,
       tpu_forward |-> <<>>],
      [tpu |-> <<>>, tpu_forward |-> <<>>],
      [tpu |-> <<[ip |-> <<10, 0, 0, 256>>, port |-> 8001]>>,
       tpu_forward |-> <<[ip |-> <<10, 0, 0, 1>>, port |-> 8002]>>] }

\* str::parse::<Ipv4Addr>: four octets, each 0..255
ParseIpv4Ok(ip) == Len(ip) = 4 /\ \A i \in 1..4 : ip[i] \in 0..255

\* `port as u16`
AsU16Saturating(port) == IF port > 65535 THEN 65535 ELSE port
AsU16(port) == port % 65536

SocketAddrNew(ip, port) == [ip |-> ip, port |-> port]
NoHeartbeatEvent == <<NoSocket, NoSocket>>

\* ------------------------------------------------------------------------
\* Auth tokens
\* ------------------------------------------------------------------------
AccessTtl == 2
RefreshTtl == 4
\* lifetimes the auth service gives the tokens it issues
ShortLived == [access |-> AccessTtl, refresh |-> RefreshTtl]
LongLived == [access |-> Far, refresh |-> Far]
Token(serial, expires, pubkey) ==
    [serial |-> serial, expires_at_utc |-> expires, pubkey |-> pubkey]
NoToken == Token(0, 0, "")
\* serial number of the token issued after the one numbered n
NextSerial(n) == (n % NumSerials) + 1

RelayerStageStatsDefault ==
    [num_empty_messages |-> 0, num_packets |-> 0, num_heartbeats |-> 0]

Channels == {"packet_tx", "verified_packet_tx", "heartbeat_tx"}

\* ------------------------------------------------------------------------
\* State
\* ------------------------------------------------------------------------
\* ------------------------------------------------------------------------
\* tip-distributor/src/stake_meta_generator_workflow.rs
\* ------------------------------------------------------------------------
\* u64, with the width scaled down to LamportBits bits
LamportBits == 5
U64_MAX == 2^LamportBits - 1

\* Option::None of a checked u64 operation
None == -1
checked_add(a, b) == IF a + b > U64_MAX THEN None ELSE a + b
checked_sub(a, b) == IF a < b THEN None ELSE a - b

\* the accounts of a bank
NoAccount == [exists |-> FALSE, lamports |-> 0, data_len |-> 0]
Account(lamports, data_len) ==
    [exists |-> TRUE, lamports |-> lamports, data_len |-> data_len]

\* bank.get_minimum_balance_for_rent_exemption(data_len): grows with the
\* data length and is positive for an empty account
get_minimum_balance_for_rent_exemption(data_len) == data_len + 1

\* derive_tip_payment_pubkeys: the 8 tip PDAs of the tip-payment program
NumTipPdas == 8
tip_pdas == [i \in 1..NumTipPdas |-> <<"tip_pda", "", i>>]
TipPdaDataLen == 0

\* derive_tip_distribution_account_address(program_id, vote_pubkey, epoch).0
derive_tip_distribution_account_address(vote_pubkey, epoch) ==
    <<"tda", vote_pubkey, epoch>>
TipDistributionAccountSize == 1

\* the stake accounts of the stakes cache: `stake` is delegation().stake and
\* `effective` is delegation().stake(bank.epoch(), None)
NoStakeAccount == [exists |-> FALSE, voter_pubkey |-> "", stake |-> 0, effective |-> 0]
StakeAccount(voter_pubkey, stake, effective) ==
    [exists |-> TRUE, voter_pubkey |-> voter_pubkey, stake |-> stake,
     effective |-> effective]

\* a HashMap or a Vec is walked in some order that depends on its content only
RECURSIVE SetToSeq(_)
SetToSeq(S) ==
    IF S = {} THEN <<>>
    ELSE LET x == CHOOSE y \in S : TRUE IN <<x>> \o SetToSeq(S \ {x})

\* lines 267-269: the filter of group_delegations_by_voter_pubkey
HasAnyStake(stake_account) == stake_account.exists
HasEffectiveStake(stake_account) ==
    stake_account.exists /\ stake_account.effective > 0

\* lines 276-290: crate::Delegation (the staker and withdrawer keys are left out)
Delegation(stake_pubkey, stake_account) ==
    [stake_account_pubkey |-> stake_pubkey,
     lamports_delegated |-> stake_account.stake]

\* lines 261-295
group_delegations_by_voter_pubkey(delegations) ==
    LET filtered == { s \in DOMAIN delegations : HasEffectiveStake(delegations[s]) }
        voters == { delegations[s].voter_pubkey : s \in filtered }
    IN [voter_pubkey \in voters |->
          LET group == SetToSeq({ s \in filtered :
                                    delegations[s].voter_pubkey = voter_pubkey })
          IN [i \in 1..Len(group) |-> Delegation(group[i], delegations[group[i]])]]

\* lines 171-176: what one tip PDA holds above its rent-exempt minimum
TipBalanceSaturating(acc) ==
    IF acc.lamports < get_minimum_balance_for_rent_exemption(acc.data_len)
      THEN 0
      ELSE acc.lamports - get_minimum_balance_for_rent_exemption(acc.data_len)
TipBalance(acc) ==
    checked_sub(acc.lamports, get_minimum_balance_for_rent_exemption(acc.data_len))

\* line 177: Iterator::sum over u64; an overflow panics in a build with
\* overflow checks and wraps in a build without
RECURSIVE SumU64(_, _)
SumU64(seq, overflow_checks) ==
    IF seq = <<>> THEN 0
    ELSE LET rest == SumU64(Tail(seq), overflow_checks) IN
         IF rest = None THEN None
         ELSE IF Head(seq) + rest <= U64_MAX THEN Head(seq) + rest
         ELSE IF overflow_checks THEN None
         ELSE (Head(seq) + rest) % (U64_MAX + 1)

\* lines 199-206: the excess is credited to the account the tip-payment
\* config names as tip_receiver
LamportsCreditedAlways(tip_distribution_pubkey, tip_receiver, lamports, excess) ==
    checked_add(lamports, excess)
LamportsCreditedUnlessReceiver(tip_distribution_pubkey, tip_receiver, lamports, excess) ==
    IF tip_distribution_pubkey # tip_receiver
      THEN checked_add(lamports, excess)
      ELSE lamports
LamportsCredited(tip_distribution_pubkey, tip_receiver, lamports, excess) ==
    IF tip_distribution_pubkey = tip_receiver
      THEN checked_add(lamports, excess)
      ELSE lamports

\* lines 187-212: Option<TipDistributionAccountWrapper> of one vote account
NoTda == [exists |-> FALSE, tip_distribution_pubkey |-> <<"", "", 0>>,
          lamports |-> 0, data_len |-> 0]
MaybeTda(b, vote_pubkey, excess_tip_balances) ==
    LET tip_distribution_pubkey ==
            derive_tip_distribution_account_address(vote_pubkey, b.epoch)
        account_data == b.accounts[tip_distribution_pubkey]
    IN IF ~account_data.exists THEN NoTda
       ELSE [exists |-> TRUE,
             tip_distribution_pubkey |-> tip_distribution_pubkey,
             lamports |-> LamportsCredited(tip_distribution_pubkey, b.tip_receiver,
                                           account_data.lamports, excess_tip_balances),
             data_len |-> account_data.data_len]

\* lines 220-222: the fold of checked_add over the delegations
RECURSIVE TotalDelegatedWrapping(_)
TotalDelegatedWrapping(delegations) ==
    IF delegations = <<>> THEN 0
    ELSE (TotalDelegatedWrapping(Tail(delegations))
            + Head(delegations).lamports_delegated) % (U64_MAX + 1)
RECURSIVE TotalDelegated(_)
TotalDelegated(delegations) ==
    IF delegations = <<>> THEN 0
    ELSE LET rest == TotalDelegated(Tail(delegations)) IN
         IF rest = None THEN None
         ELSE checked_add(rest, Head(delegations).lamports_delegated)

\* TipDistributionMeta::from_tda_wrapper(tda, rent_exempt_amount)
NoTipDistributionMeta ==
    [exists |-> FALSE, tip_distribution_pubkey |-> <<"", "", 0>>, total_tips |-> 0]
from_tda_wrapper(tda, rent_exempt_amount) ==
    [exists |-> TRUE,
     tip_distribution_pubkey |-> tda.tip_distribution_pubkey,
     total_tips |-> checked_sub(tda.lamports, rent_exempt_amount)]

\* what generate_stake_meta_collection gives: a collection, an error or a panic
NotRun == [kind |-> "NotRun", msg |-> "", stake_metas |-> <<>>]
Panic(msg) == [kind |-> "panic", msg |-> msg, stake_metas |-> <<>>]
GenErr(msg) == [kind |-> "Err", msg |-> msg, stake_metas |-> <<>>]
GenOk(stake_metas) == [kind |-> "Ok", msg |-> "", stake_metas |-> stake_metas]

\* lines 217-249: the loop over vote_pk_and_maybe_tdas
RECURSIVE AssembleStakeMetas(_, _, _, _, _)
AssembleStakeMetas(b, vote_pubkeys, voter_pubkey_to_delegations, tdas, stake_metas) ==
    IF vote_pubkeys = <<>> THEN GenOk(stake_metas)
    ELSE
      LET vote_pubkey == Head(vote_pubkeys) IN
      IF vote_pubkey \notin DOMAIN voter_pubkey_to_delegations
        THEN AssembleStakeMetas(b, Tail(vote_pubkeys), voter_pubkey_to_delegations,
                                tdas, stake_metas)
        ELSE
          LET delegations == voter_pubkey_to_delegations[vote_pubkey]
              total_delegated == TotalDelegated(delegations)
              maybe_tda == tdas[vote_pubkey]
              maybe_tip_distribution_meta ==
                  IF maybe_tda.exists
                    THEN from_tda_wrapper(
                           maybe_tda,
                           get_minimum_balance_for_rent_exemption(maybe_tda.data_len))
                    ELSE NoTipDistributionMeta
          IN IF total_delegated = None
               THEN Panic("called Option::unwrap() on a None value")
             ELSE IF maybe_tip_distribution_meta.total_tips = None
               THEN GenErr("CheckedMathError")
             ELSE AssembleStakeMetas(
                    b, Tail(vote_pubkeys), voter_pubkey_to_delegations, tdas,
                    Append(stake_metas,
                           [validator_vote_account |-> vote_pubkey,
                            delegations |-> delegations,
                            total_delegated |-> total_delegated,
                            maybe_tip_distribution_meta |-> maybe_tip_distribution_meta]))

\* lines 168-177: excess_tip_balances, None when the sum panics
ExcessTipBalancesSkipLast(b, overflow_checks) ==
    SumU64([i \in 1..(NumTipPdas - 1) |-> TipBalance(b.accounts[tip_pdas[i]])],
           overflow_checks)
excess_tip_balances(b, overflow_checks) ==
    SumU64([i \in 1..NumTipPdas |-> TipBalance(b.accounts[tip_pdas[i]])],
           overflow_checks)

\* lines 135-258
generate_stake_meta_collection(b, overflow_checks) ==
    LET voter_pubkey_to_delegations ==
            group_delegations_by_voter_pubkey(b.stake_delegations)
        excess == excess_tip_balances(b, overflow_checks)
        tdas == [vote_pubkey \in b.epoch_vote_accounts |->
                   MaybeTda(b, vote_pubkey, excess)]
    IN IF \E i \in 1..NumTipPdas : ~b.accounts[tip_pdas[i]].exists
         THEN Panic("tip account exists")
       ELSE IF \E i \in 1..NumTipPdas : TipBalance(b.accounts[tip_pdas[i]]) = None
         THEN Panic("tip balance underflow")
       ELSE IF excess = None
         THEN Panic("attempt to add with overflow")
       ELSE IF \E vote_pubkey \in b.epoch_vote_accounts :
                 tdas[vote_pubkey].exists /\ tdas[vote_pubkey].lamports = None
         THEN Panic("tip overflow")
       ELSE AssembleStakeMetas(b, SetToSeq(b.epoch_vote_accounts),
                               voter_pubkey_to_delegations, tdas, <<>>)

\* the stake accounts a bank can hold
NumStakeAccounts == 2

NoBank ==
    [epoch |-> 0, epoch_vote_accounts |-> {}, stake_delegations |-> <<>>,
     accounts |-> <<>>, tip_receiver |-> <<"", "", 0>>]

\* the lamports of the 8 tip PDAs: the first six at the rent-exempt
\* minimum, the last two below, at or above it; the PDAs are
\* interchangeable, so those two in non-decreasing order
PdaLamports ==
    { l \in [1..NumTipPdas -> {0, 1, 2}] :
        /\ \A i \in 1..(NumTipPdas - 2) :
              l[i] = get_minimum_balance_for_rent_exemption(TipPdaDataLen)
        /\ l[NumTipPdas - 1] <= l[NumTipPdas] }

\* The frozen banks the generator is run on, by what it reads of them: the
\* epoch vote accounts, the stake accounts, the tip PDAs, the
\* TipDistributionAccounts of the epoch and the tip_receiver of the
\* tip-payment config.  One family varies in the stake accounts (delegated
\* and effective stake), the other in the tip accounts (tip PDAs below, at
\* and above the rent-exempt minimum, TipDistributionAccounts below and above
\* theirs, a tip_receiver of this epoch or of the last one).
Epoch == 1
VotePubkeys == {"v1", "v2"}

MkBank(vote_accounts, stake_delegations, pda_lamports, tdas, tip_receiver) ==
    LET Tda(lamports) == Account(lamports, TipDistributionAccountSize) IN
    [epoch |-> Epoch,
     epoch_vote_accounts |-> vote_accounts,
     stake_delegations |-> stake_delegations,
     accounts |->
       [address \in {tip_pdas[i] : i \in 1..NumTipPdas}
                     \cup {derive_tip_distribution_account_address(v, e) :
                             v \in VotePubkeys, e \in {Epoch - 1, Epoch}} |->
          IF address[1] = "tip_pda"
            THEN Account(pda_lamports[address[3]], TipPdaDataLen)
          ELSE IF address[3] = Epoch
            THEN tdas[address[2]]
          ELSE Tda(get_minimum_balance_for_rent_exemption(TipDistributionAccountSize))],
     tip_receiver |-> tip_receiver]

\* banks that vary in their stake accounts: delegated and effective stake
StakeBanks ==
    LET Tda(lamports) == Account(lamports, TipDistributionAccountSize)
        TdaRent == get_minimum_balance_for_rent_exemption(TipDistributionAccountSize)
        PdasAtMinimum ==
            [i \in 1..NumTipPdas |-> get_minimum_balance_for_rent_exemption(TipPdaDataLen)]
        StakeChoices ==
            {NoStakeAccount}
              \cup { StakeAccount(v, st[1], st[2]) :
                       v \in VotePubkeys,
                       st \in {<<1, 0>>, <<2, 1>>, <<U64_MAX, 1>>,
                               <<U64_MAX, U64_MAX>>} }
    IN { MkBank(vote_accounts, stake_delegations, PdasAtMinimum, tdas,
                derive_tip_distribution_account_address("v1", Epoch)) :
           vote_accounts \in {VotePubkeys, {"v1"}},
           stake_delegations \in [1..NumStakeAccounts -> StakeChoices],
           tdas \in {[v \in VotePubkeys |-> Tda(TdaRent + 1)]} }

\* banks that vary in their tip accounts: tip PDAs below, at and above the
\* rent-exempt minimum, TipDistributionAccounts below and above theirs, a
\* tip_receiver of this epoch or of the last one.  The lamports of a bank
\* add up to its capitalization, a u64.
TipBanks ==
    LET Tda(lamports) == Account(lamports, TipDistributionAccountSize)
        TdaRent == get_minimum_balance_for_rent_exemption(TipDistributionAccountSize)
        TipStakeChoices ==
            {NoStakeAccount} \cup { StakeAccount(v, 1, 1) : v \in VotePubkeys }
        AllLamports(b) ==
            SumU64([i \in 1..NumTipPdas |-> b.accounts[tip_pdas[i]].lamports], FALSE)
              + b.accounts[derive_tip_distribution_account_address("v1", Epoch)].lamports
              + b.accounts[derive_tip_distribution_account_address("v2", Epoch)].lamports
    IN { b \in
         { MkBank(vote_accounts, stake_delegations, pda_lamports, tdas, tip_receiver) :
           vote_accounts \in SUBSET VotePubkeys,
           stake_delegations \in
             { sd \in [1..NumStakeAccounts -> TipStakeChoices] :
                 \A s \in 1..NumStakeAccounts : s > 2 => sd[s] = NoStakeAccount },
           pda_lamports \in PdaLamports,
           tdas \in { t \in [VotePubkeys ->
                                {NoAccount, Tda(TdaRent - 1), Tda(TdaRent + 1),
                                 Tda(U64_MAX - 2 * NumTipPdas)}] :
                        t["v2"] \in {NoAccount, Tda(TdaRent + 1)} },
           tip_receiver \in
             { derive_tip_distribution_account_address(v, Epoch) : v \in VotePubkeys }
               \cup {derive_tip_distribution_account_address("v1", Epoch - 1)} } :
         AllLamports(b) <= U64_MAX }

\* the frozen banks the generator is run on
Banks == StakeBanks \cup TipBanks

\* ------------------------------------------------------------------------
\* TipManager (tip_manager.rs)
\* ------------------------------------------------------------------------
\* lines 183-194: the HashSet of the 8 tip PDAs
get_tip_accounts == { tip_pdas[i] : i \in 1..NumTipPdas }

\* Bank::get_balance: the lamports of the account, 0 when there is none
get_balance(b, account) == b.accounts[account].lamports

\* line 430: bank.get_account(&account).unwrap_or_default(), an account with
\* no lamports and no data when there is none
get_account_or_default(b, account) ==
    IF b.accounts[account].exists THEN b.accounts[account] ELSE Account(0, 0)

\* lines 436-439: balance.checked_sub(rent_exempt).unwrap_or_else(|| 0)
BalanceAboveRentExemptWrapping(balance, rent_exempt) ==
    (balance - rent_exempt + U64_MAX + 1) % (U64_MAX + 1)
BalanceAboveRentExempt(balance, rent_exempt) ==
    IF checked_sub(balance, rent_exempt) = None
      THEN 0
      ELSE checked_sub(balance, rent_exempt)

\* lines 421-443: the pairs (account, balance above rent-exempt), as a
\* function of the account
get_tip_account_balances_above_rent_exempt(b) ==
    [ account \in get_tip_accounts |->
        LET account_data == get_account_or_default(b, account)
            balance == get_balance(b, account)
            rent_exempt == get_minimum_balance_for_rent_exemption(account_data.data_len)
        IN BalanceAboveRentExempt(balance, rent_exempt) ]

NotCalled == [called |-> FALSE, balances |-> <<>>]

\* the banks the TipManager is asked about: the first five tip PDAs at the
\* rent-exempt minimum, each of the last three missing, empty, with or
\* without data, below, at or above its minimum, or holding every lamport
\* of a u64
TipManagerBanks ==
    LET PdaChoices ==
            { NoAccount, Account(0, 0), Account(1, 0), Account(2, 0),
              Account(1, 1), Account(2, 1), Account(3, 1), Account(U64_MAX, 0) }
        base == MkBank({}, [s \in 1..NumStakeAccounts |-> NoStakeAccount],
                       [i \in 1..NumTipPdas |->
                          get_minimum_balance_for_rent_exemption(TipPdaDataLen)],
                       [v \in VotePubkeys |-> NoAccount],
                       derive_tip_distribution_account_address("v1", Epoch))
    IN { [base EXCEPT !.accounts =
            [address \in DOMAIN @ |->
               IF address[1] = "tip_pda" /\ address[3] > NumTipPdas - 3
                 THEN last[address[3]]
                 ELSE @[address]]] :
         last \in [(NumTipPdas - 2)..NumTipPdas -> PdaChoices] }

VARIABLES
    exit,                \* Arc<AtomicBool>
    relayer_config,      \* Arc<Mutex<RelayerConfig>>, the shared config
    cluster_keypair,     \* cluster_info.keypair()
    disconnected,        \* channels whose receivers have been dropped
    pc,                  \* where the relayer-stage task is
    error_count,         \* start: error_count
    proxy_error,         \* relayer_stage-proxy_error datapoints since the attempt began
    wake_at,             \* end of the current sleep(CONNECTION_BACKOFF)
    result,              \* what the last connect_auth_and_stream returned
    attempts,            \* number of calls of connect_auth_and_stream
    steps,               \* handshake steps completed by the current attempt
    keypair,             \* connect_auth_and_stream: keypair
    local_config,        \* connect_auth_and_stream: local_config
    access_token,        \* Arc<Mutex<Token>> read by the AuthInterceptor
    refresh_token,       \* consume_packet_stream: refresh_token
    minted,              \* serial of the last token issued to the current attempt
    heartbeat_event,     \* start_consuming_relayer_packets: heartbeat_event
    packet_stream,       \* Streaming<SubscribePacketsResponse>: items in flight
    consumed,            \* responses handled by the current session, in order
    relayer_stats,       \* consume_packet_stream: relayer_stats
    reported,            \* last relayer_stage-stats datapoint of the session and
                         \* the number of responses handled before it
    metrics_and_auth_tick,     \* next deadline of interval(METRICS_TICK)
    heartbeat_check_interval,  \* next deadline of the heartbeat interval
    last_heartbeat_ts,   \* consume_packet_stream: last_heartbeat_ts
    session_start,       \* the instant consume_packet_stream was entered
    packet_tx,           \* batches the current session sent on packet_tx
    verified_packet_tx,  \* items the current session sent on verified_packet_tx
    heartbeat_tx,        \* events the current session sent on heartbeat_tx
    bank,                \* run_workflow: the bank created from the snapshot
    stake_meta_coll,     \* run_workflow: what generate_stake_meta_collection gave
    tip_balances         \* what get_tip_account_balances_above_rent_exempt gave

envVars == <<exit, relayer_config, cluster_keypair, disconnected>>
supVars == <<pc, error_count, proxy_error, wake_at, result, attempts, steps>>
connVars == <<keypair, local_config, access_token, refresh_token, minted,
              heartbeat_event>>
loopVars == <<packet_stream, consumed, relayer_stats, reported,
              metrics_and_auth_tick, heartbeat_check_interval,
              last_heartbeat_ts, session_start>>
txVars == <<packet_tx, verified_packet_tx, heartbeat_tx>>
genVars == <<bank, stake_meta_coll, tip_balances>>
relayerVars == <<envVars, supVars, connVars, loopVars, txVars>>
vars == <<relayerVars, genVars>>


\* ------------------------------------------------------------------------
\* Initial state: the stage has been spawned, nothing has run yet
\* ------------------------------------------------------------------------
InitRelayerStage ==
    /\ exit = FALSE
    /\ cluster_keypair = "kpA"
    /\ disconnected = {}
    /\ pc = "start"
    /\ error_count = 0
    /\ proxy_error = <<>>
    /\ wake_at = 0
    /\ result = NoResult
    /\ attempts = 0
    /\ steps = <<>>
    /\ keypair = NoKeypair
    /\ local_config = NoConfig
    /\ access_token = NoToken
    /\ refresh_token = NoToken
    /\ minted = 0
    /\ heartbeat_event = NoHeartbeatEvent
    /\ packet_stream = <<>>
    /\ consumed = <<>>
    /\ relayer_stats = RelayerStageStatsDefault
    /\ reported = <<>>
    /\ metrics_and_auth_tick = 0
    /\ heartbeat_check_interval = 0
    /\ last_heartbeat_ts = 0
    /\ session_start = 0
    /\ packet_tx = <<>>
    /\ verified_packet_tx = <<>>
    /\ heartbeat_tx = <<>>

\* the validator process: the relayer stage with some shared RelayerConfig;
\* the stake-meta generator is another program and does not run here
Init ==
    /\ InitRelayerStage
    /\ relayer_config \in Configs
    /\ bank = NoBank
    /\ stake_meta_coll = NotRun
    /\ tip_balances = NotCalled

\* ------------------------------------------------------------------------
\* Leaving connect_auth_and_stream: its locals are dropped
\* ------------------------------------------------------------------------
DropLocals ==
    /\ keypair' = NoKeypair
    /\ local_config' = NoConfig
    /\ access_token' = NoToken
    /\ refresh_token' = NoToken
    /\ minted' = 0
    /\ heartbeat_event' = NoHeartbeatEvent
    /\ packet_stream' = <<>>
    /\ relayer_stats' = RelayerStageStatsDefault
    /\ metrics_and_auth_tick' = 0
    /\ heartbeat_check_interval' = 0
    /\ last_heartbeat_ts' = 0
    /\ session_start' = 0

\* start, lines 165-180: the match on Err(e) and the sleep that follows it
ErrorCountAfterAny(e, count) == count + 1
ErrorCountAfterAuthErrorsIgnored(e, count) ==
    IF e.kind \in {"AuthenticationPermissionDenied", "AuthenticationConnectionError"}
      THEN count
      ELSE count + 1
ErrorCountAfterResetOnDenied(e, count) ==
    IF e = AuthenticationPermissionDenied THEN 0 ELSE count + 1
ErrorCountAfter(e, count) ==
    IF e = AuthenticationPermissionDenied THEN count ELSE count + 1

\* lines 173-177: datapoint_warn!("relayer_stage-proxy_error", count, error)
ProxyErrorAfterStaleCount(e, count, datapoints) ==
    IF e = AuthenticationPermissionDenied
      THEN datapoints
      ELSE Append(datapoints, [count |-> count, error |-> e])
ProxyErrorAfter(e, count, datapoints) ==
    IF e = AuthenticationPermissionDenied
      THEN datapoints
      ELSE Append(datapoints, [count |-> count + 1, error |-> e])

ReturnErrAndStop(e) ==
    /\ result' = e
    /\ error_count' = ErrorCountAfter(e, error_count)
    /\ proxy_error' = ProxyErrorAfter(e, error_count, proxy_error)
    /\ wake_at' = now + CONNECTION_BACKOFF_S
    /\ pc' = "done"
    /\ DropLocals
ReturnErrNoBackoff(e) ==
    /\ result' = e
    /\ error_count' = ErrorCountAfter(e, error_count)
    /\ proxy_error' = ProxyErrorAfter(e, error_count, proxy_error)
    /\ wake_at' = now
    /\ pc' = "start"
    /\ DropLocals
ReturnErr(e) ==
    /\ result' = e
    /\ error_count' = ErrorCountAfter(e, error_count)
    /\ proxy_error' = ProxyErrorAfter(e, error_count, proxy_error)
    /\ wake_at' = now + CONNECTION_BACKOFF_S
    /\ pc' = "sleep"
    /\ DropLocals

\* start, line 154: `else if let Err(e)` does not match Ok(()), no sleep
ReturnOkThenBackoff ==
    /\ result' = ResultOk
    /\ pc' = "sleep"
    /\ wake_at' = now + CONNECTION_BACKOFF_S
    /\ UNCHANGED <<error_count, proxy_error, proxy_error>>
    /\ DropLocals
ReturnOk ==
    /\ result' = ResultOk
    /\ pc' = "start"
    /\ UNCHANGED <<error_count, proxy_error, wake_at>>
    /\ DropLocals

\* ------------------------------------------------------------------------
\* RelayerStage::start
\* ------------------------------------------------------------------------
\* one evaluation of `while !exit` and of the config validation
StartLoop ==
    /\ pc = "start"
    /\ IF exit
         THEN /\ pc' = "done"
              /\ UNCHANGED <<proxy_error, wake_at, result, attempts, steps, consumed,
                             reported, txVars>>
         ELSE IF ~validate_relayer_config(relayer_config)
         THEN /\ pc' = "sleep"
              /\ wake_at' = now + CONNECTION_BACKOFF_S
              /\ UNCHANGED <<proxy_error, result, attempts, steps, consumed, reported,
                             txVars>>
         ELSE /\ attempts < MaxAttempts
              /\ pc' = "connect_auth_and_stream"
              /\ attempts' = attempts + 1
              /\ result' = NoResult
              /\ proxy_error' = <<>>
              /\ steps' = <<>>
              /\ consumed' = <<>>
              /\ reported' = <<>>
              /\ packet_tx' = <<>>
              /\ verified_packet_tx' = <<>>
              /\ heartbeat_tx' = <<>>
              /\ UNCHANGED wake_at
    /\ UNCHANGED <<genVars, envVars, error_count, connVars,
                   packet_stream, relayer_stats, metrics_and_auth_tick,
                   heartbeat_check_interval, last_heartbeat_ts, session_start>>

\* sleep(CONNECTION_BACKOFF) completes
WakeUp ==
    /\ pc = "sleep"
    /\ now >= wake_at
    /\ pc' = "start"
    /\ wake_at' = 0
    /\ UNCHANGED <<genVars, envVars, error_count, proxy_error, result, attempts, steps,
                   connVars, loopVars, txVars>>

\* ------------------------------------------------------------------------
\* RelayerStage::connect_auth_and_stream
\* ------------------------------------------------------------------------
\* a step of the handshake, whether it succeeded and, for get_tpu_configs,
\* the response it received (none on a timeout or an RPC error)
StepWith(name, ok, response) == [step |-> name, ok |-> ok, response |-> response]
Step(name, ok) == StepWith(name, ok, <<>>)

\* lines 232-351: the awaits of one attempt, in program order
StepAfterRelayerFirst(step) ==
    CASE step = "connect_auth_and_stream" -> "auth_connect"
      [] step = "auth_connect" -> "relayer_connect"
      [] step = "relayer_connect" -> "generate_auth_tokens"
      [] step = "generate_auth_tokens" -> "get_tpu_configs"
      [] step = "get_tpu_configs" -> "subscribe_packets"
      [] OTHER -> "consume_packet_stream"
StepAfterSkipsSubscribe(step) ==
    CASE step = "connect_auth_and_stream" -> "auth_connect"
      [] step = "auth_connect" -> "generate_auth_tokens"
      [] step = "generate_auth_tokens" -> "relayer_connect"
      [] step = "relayer_connect" -> "get_tpu_configs"
      [] OTHER -> "consume_packet_stream"
StepAfter(step) ==
    CASE step = "connect_auth_and_stream" -> "auth_connect"
      [] step = "auth_connect" -> "generate_auth_tokens"
      [] step = "generate_auth_tokens" -> "relayer_connect"
      [] step = "relayer_connect" -> "get_tpu_configs"
      [] step = "get_tpu_configs" -> "subscribe_packets"
      [] OTHER -> "consume_packet_stream"

\* lines 194-230: snapshot of identity and config, the two endpoints
ConnectAuthAndStream ==
    /\ pc = "connect_auth_and_stream"
    /\ LET cfg == relayer_config IN
         IF ~EndpointFromShared(cfg.auth_service_addr)
         THEN /\ ReturnErr(Err("AuthenticationConnectionError", "invalid relayer url value"))
         ELSE IF ~EndpointFromShared(cfg.backend_addr)
         THEN /\ ReturnErr(Err("RelayerConnectionError", "invalid relayer url value"))
         ELSE /\ keypair' = cluster_keypair
              /\ local_config' = cfg
              /\ pc' = StepAfter("connect_auth_and_stream")
              /\ UNCHANGED <<error_count, proxy_error, wake_at, result, access_token,
                             refresh_token, minted, heartbeat_event, packet_stream,
                             relayer_stats, metrics_and_auth_tick,
                             heartbeat_check_interval, last_heartbeat_ts, session_start>>
    /\ UNCHANGED <<genVars, envVars, attempts, steps, consumed, reported, txVars>>

\* lines 232-236: auth_service_endpoint.connect() under the timeout
AuthConnect(outcome) ==
    /\ pc = "auth_connect"
    /\ steps' = Append(steps, Step("auth_connect", outcome = "ok"))
    /\ CASE outcome = "ok" ->
              /\ pc' = StepAfter("auth_connect")
              /\ UNCHANGED <<error_count, proxy_error, wake_at, result, connVars, loopVars>>
         [] outcome = "timeout" ->
              /\ ReturnErr(Err("AuthenticationConnectionTimeout", ""))
              /\ UNCHANGED <<consumed, reported>>
         [] OTHER ->
              /\ ReturnErr(Err("AuthenticationConnectionError", "transport error"))
              /\ UNCHANGED <<consumed, reported>>
    /\ UNCHANGED <<genVars, envVars, attempts, txVars>>

\* lines 240-246: generate_auth_tokens under the timeout
GenerateAuthTokens(outcome, life) ==
    /\ pc = "generate_auth_tokens"
    /\ steps' = Append(steps, Step("generate_auth_tokens", outcome = "ok"))
    /\ CASE outcome = "ok" ->
              /\ access_token' =
                     Token(NextSerial(minted), now + life.access, Pubkey(keypair))
              /\ refresh_token' =
                     Token(NextSerial(NextSerial(minted)), now + life.refresh,
                           Pubkey(keypair))
              /\ minted' = NextSerial(NextSerial(minted))
              /\ pc' = StepAfter("generate_auth_tokens")
              /\ UNCHANGED <<error_count, proxy_error, wake_at, result, keypair, local_config,
                             heartbeat_event, loopVars>>
         [] outcome = "timeout" ->
              /\ ReturnErr(Err("AuthenticationTimeout", ""))
              /\ UNCHANGED <<consumed, reported>>
         [] outcome = "denied" ->
              /\ ReturnErr(AuthenticationPermissionDenied)
              /\ UNCHANGED <<consumed, reported>>
         [] OTHER ->
              /\ ReturnErr(Err("AuthenticationConnectionError", "auth rpc failed"))
              /\ UNCHANGED <<consumed, reported>>
    /\ UNCHANGED <<genVars, envVars, attempts, txVars>>

\* lines 254-258: backend_endpoint.connect() under the timeout
RelayerConnect(outcome) ==
    /\ pc = "relayer_connect"
    /\ steps' = Append(steps, Step("relayer_connect", outcome = "ok"))
    /\ CASE outcome = "ok" ->
              /\ pc' = StepAfter("relayer_connect")
              /\ UNCHANGED <<error_count, proxy_error, wake_at, result, connVars, loopVars>>
         [] outcome = "timeout" ->
              /\ ReturnErr(Err("RelayerConnectionTimeout", ""))
              /\ UNCHANGED <<consumed, reported>>
         [] OTHER ->
              /\ ReturnErr(Err("RelayerConnectionError", "transport error"))
              /\ UNCHANGED <<consumed, reported>>
    /\ UNCHANGED <<genVars, envVars, attempts, txVars>>


\* ------------------------------------------------------------------------
\* RelayerStage::start_consuming_relayer_packets
\* ------------------------------------------------------------------------
\* lines 310-322: the HeartbeatEvent built from a get_tpu_configs response,
\* or the error the response leads to
TpuConfigErrorForwardFirst(tpu_config) ==
    IF tpu_config.tpu_forward = <<>> THEN Err("MissingTpuSocket", "tpu_fwd")
    ELSE IF tpu_config.tpu = <<>> THEN Err("MissingTpuSocket", "tpu")
    ELSE IF ~ParseIpv4Ok(tpu_config.tpu[1].ip) THEN Err("InvalidSocketAddress", "tpu")
    ELSE IF ~ParseIpv4Ok(tpu_config.tpu_forward[1].ip)
         THEN Err("InvalidSocketAddress", "tpu_fwd")
    ELSE ResultOk
TpuConfigError(tpu_config) ==
    IF tpu_config.tpu = <<>> THEN Err("MissingTpuSocket", "tpu")
    ELSE IF tpu_config.tpu_forward = <<>> THEN Err("MissingTpuSocket", "tpu_fwd")
    ELSE IF ~ParseIpv4Ok(tpu_config.tpu[1].ip) THEN Err("InvalidSocketAddress", "tpu")
    ELSE IF ~ParseIpv4Ok(tpu_config.tpu_forward[1].ip)
         THEN Err("InvalidSocketAddress", "tpu_fwd")
    ELSE ResultOk

HeartbeatEventOfSwapped(tpu_config) ==
    << SocketAddrNew(tpu_config.tpu_forward[1].ip,
                     AsU16(tpu_config.tpu_forward[1].port)),
       SocketAddrNew(tpu_config.tpu[1].ip, AsU16(tpu_config.tpu[1].port)) >>
HeartbeatEventOf(tpu_config) ==
    << SocketAddrNew(tpu_config.tpu[1].ip, AsU16(tpu_config.tpu[1].port)),
       SocketAddrNew(tpu_config.tpu_forward[1].ip,
                     AsU16(tpu_config.tpu_forward[1].port)) >>

\* lines 300-323: client.get_tpu_configs under the timeout
GetTpuConfigs(outcome, tpu_config) ==
    /\ pc = "get_tpu_configs"
    /\ steps' = Append(steps, StepWith("get_tpu_configs",
                                       outcome = "ok" /\ TpuConfigError(tpu_config) = ResultOk,
                                       IF outcome = "ok" THEN <<tpu_config>> ELSE <<>>))
    /\ CASE outcome = "ok" /\ TpuConfigError(tpu_config) = ResultOk ->
              /\ heartbeat_event' = HeartbeatEventOf(tpu_config)
              /\ pc' = StepAfter("get_tpu_configs")
              /\ UNCHANGED <<error_count, proxy_error, wake_at, result, keypair, local_config,
                             access_token, refresh_token, minted, loopVars>>
         [] outcome = "ok" /\ TpuConfigError(tpu_config) # ResultOk ->
              /\ ReturnErr(TpuConfigError(tpu_config))
              /\ UNCHANGED <<consumed, reported>>
         [] outcome = "timeout" ->
              /\ ReturnErr(Err("MethodTimeout", "relayer_get_tpu_configs"))
              /\ UNCHANGED <<consumed, reported>>
         [] OTHER ->
              /\ ReturnErr(Err("MethodError", "status"))
              /\ UNCHANGED <<consumed, reported>>
    /\ UNCHANGED <<genVars, envVars, attempts, txVars>>

\* lines 325-332 and 370-382: client.subscribe_packets under the timeout and,
\* on success, the set-up of consume_packet_stream up to its loop.
\* tokio::time::interval panics when its period is zero.
SubscribePackets(outcome) ==
    /\ pc = "subscribe_packets"
    /\ steps' = Append(steps, Step("subscribe_packets", outcome = "ok"))
    /\ CASE outcome = "ok" /\ local_config.expected_heartbeat_interval = 0 ->
              /\ pc' = "panicked"
              /\ DropLocals
              /\ UNCHANGED <<error_count, proxy_error, wake_at, result, consumed, reported>>
         [] outcome = "ok" /\ local_config.expected_heartbeat_interval # 0 ->
              /\ relayer_stats' = RelayerStageStatsDefault
              /\ metrics_and_auth_tick' = now
              /\ heartbeat_check_interval' = now
              /\ last_heartbeat_ts' = now
              /\ session_start' = now
              /\ packet_stream' = <<>>
              /\ pc' = StepAfter("subscribe_packets")
              /\ UNCHANGED <<error_count, proxy_error, wake_at, result, connVars, consumed, reported>>
         [] outcome = "timeout" ->
              /\ ReturnErr(Err("MethodTimeout", "relayer_subscribe_packets"))
              /\ UNCHANGED <<consumed, reported>>
         [] OTHER ->
              /\ ReturnErr(Err("MethodError", "status"))
              /\ UNCHANGED <<consumed, reported>>
    /\ UNCHANGED <<genVars, envVars, attempts, txVars>>

\* ------------------------------------------------------------------------
\* RelayerStage::handle_relayer_packets
\* ------------------------------------------------------------------------
\* crossbeam Sender::send fails without queueing when the receivers are gone
SendPrepends(tx, chan, item) == IF chan \in disconnected THEN tx ELSE <<item>> \o tx
Send(tx, chan, item) == IF chan \in disconnected THEN tx ELSE Append(tx, item)

SendResultIgnored(chan, e) == ResultOk
SendResult(chan, e) == IF chan \in disconnected THEN e ELSE ResultOk

\* position of the next send among all sends of the session
NextSeq == Len(packet_tx) + Len(verified_packet_tx) + Len(heartbeat_tx) + 1

\* lines 469-477: the channel a batch goes to
PacketChannelSwapped(trust_packets) ==
    IF trust_packets THEN "packet_tx" ELSE "verified_packet_tx"
PacketChannel(trust_packets) ==
    IF trust_packets THEN "verified_packet_tx" ELSE "packet_tx"

\* lines 479-482: only a heartbeat moves last_heartbeat_ts, to the present
LastHeartbeatTsOnAnyMessage(resp, last_ts) == now
LastHeartbeatTsNeverReset(resp, last_ts) == last_ts
LastHeartbeatTsOnEmptyMessage(resp, last_ts) ==
    IF resp.msg = "Heartbeat" \/ resp.packets = <<>> THEN now ELSE last_ts
LastHeartbeatTs(resp, last_ts) == IF resp.msg = "Heartbeat" THEN now ELSE last_ts

\* line 466: packet_batch.len() as u64
PacketCountBatches(packet_batch) == 1
PacketCount(packet_batch) == Len(packet_batch)

\* lines 449-488: the values handle_relayer_packets leaves behind and what it
\* returns
handle_relayer_packets(resp, hb_event, last_ts, trust_packets, stats) ==
    LET same == [stats |-> stats, last_heartbeat_ts |-> LastHeartbeatTs(resp, last_ts),
                 packet_tx |-> packet_tx, verified_packet_tx |-> verified_packet_tx,
                 heartbeat_tx |-> heartbeat_tx, ret |-> ResultOk]
    IN CASE resp.msg = "None" ->
              [same EXCEPT !.stats.num_empty_messages = @ + 1]
         [] resp.msg = "Batch" /\ resp.packets = <<>> ->
              [same EXCEPT !.stats.num_empty_messages = @ + 1]
         [] resp.msg = "Batch" /\ resp.packets # <<>> ->
              LET packet_batch == PacketBatchNew(resp.packets)
                  chan == PacketChannel(trust_packets)
              IN [same EXCEPT
                    !.stats.num_packets = @ + PacketCount(packet_batch),
                    !.verified_packet_tx =
                        IF chan = "verified_packet_tx"
                          THEN Send(@, chan, [seq |-> NextSeq,
                                              batches |-> <<packet_batch>>,
                                              tracer_stats |-> "None"])
                          ELSE @,
                    !.packet_tx =
                        IF chan = "packet_tx"
                          THEN Send(@, chan, [seq |-> NextSeq, batch |-> packet_batch])
                          ELSE @,
                    !.ret = SendResult(chan, Err("PacketForwardError", ""))]
         [] OTHER ->
              [same EXCEPT
                 !.stats.num_heartbeats = @ + 1,
                 !.heartbeat_tx =
                     Send(@, "heartbeat_tx", [seq |-> NextSeq, event |-> hb_event]),
                 !.ret = SendResult("heartbeat_tx", Err("HeartbeatChannelError", ""))]

\* ------------------------------------------------------------------------
\* RelayerStage::consume_packet_stream
\* ------------------------------------------------------------------------
\* line 384: one evaluation of `while !exit`
ConsumeWhile ==
    /\ pc = "consume_packet_stream"
    /\ IF exit
         THEN ReturnOk
         ELSE /\ pc' = "select"
              /\ UNCHANGED <<error_count, proxy_error, wake_at, result, keypair, local_config,
                             access_token, refresh_token, minted, heartbeat_event,
                             packet_stream, relayer_stats, metrics_and_auth_tick,
                             heartbeat_check_interval, last_heartbeat_ts, session_start>>
    /\ UNCHANGED <<genVars, envVars, attempts, steps, consumed, reported, txVars>>

\* lines 386-389: the stream branch of the select
SelectMessageDuringRefresh ==
    /\ pc \in {"select", "generate_new_tokens", "refresh_access_token"}
    /\ packet_stream # <<>>
    /\ LET maybe_msg == Head(packet_stream) IN
         CASE maybe_msg.item = "Status" ->
              /\ ReturnErr(Err("GrpcError", "status"))
              /\ UNCHANGED <<consumed, txVars>>
         [] maybe_msg.item = "End" ->
              /\ ReturnErr(Err("GrpcStreamDisconnected", ""))
              /\ UNCHANGED <<consumed, txVars>>
         [] OTHER ->
              LET h == handle_relayer_packets(maybe_msg.resp, heartbeat_event,
                                              last_heartbeat_ts,
                                              local_config.trust_packets,
                                              relayer_stats)
              IN /\ consumed' = Append(consumed, maybe_msg.resp)
                 /\ packet_tx' = h.packet_tx
                 /\ verified_packet_tx' = h.verified_packet_tx
                 /\ heartbeat_tx' = h.heartbeat_tx
                 /\ IF h.ret = ResultOk
                      THEN /\ relayer_stats' = h.stats
                           /\ last_heartbeat_ts' = h.last_heartbeat_ts
                           /\ packet_stream' = Tail(packet_stream)
                           /\ pc' = "consume_packet_stream"
                           /\ UNCHANGED <<error_count, proxy_error, wake_at, result, keypair,
                                          local_config, access_token, refresh_token,
                                          minted, heartbeat_event, metrics_and_auth_tick,
                                          heartbeat_check_interval, session_start>>
                      ELSE ReturnErr(h.ret)
    /\ UNCHANGED <<genVars, envVars, attempts, steps, reported>>
SelectMessageSharedConfig ==
    /\ pc = "select"
    /\ packet_stream # <<>>
    /\ LET maybe_msg == Head(packet_stream) IN
         CASE maybe_msg.item = "Status" ->
              /\ ReturnErr(Err("GrpcError", "status"))
              /\ UNCHANGED <<consumed, txVars>>
         [] maybe_msg.item = "End" ->
              /\ ReturnErr(Err("GrpcStreamDisconnected", ""))
              /\ UNCHANGED <<consumed, txVars>>
         [] OTHER ->
              LET h == handle_relayer_packets(maybe_msg.resp, heartbeat_event,
                                              last_heartbeat_ts,
                                              relayer_config.trust_packets,
                                              relayer_stats)
              IN /\ consumed' = Append(consumed, maybe_msg.resp)
                 /\ packet_tx' = h.packet_tx
                 /\ verified_packet_tx' = h.verified_packet_tx
                 /\ heartbeat_tx' = h.heartbeat_tx
                 /\ IF h.ret = ResultOk
                      THEN /\ relayer_stats' = h.stats
                           /\ last_heartbeat_ts' = h.last_heartbeat_ts
                           /\ packet_stream' = Tail(packet_stream)
                           /\ pc' = "consume_packet_stream"
                           /\ UNCHANGED <<error_count, proxy_error, wake_at, result, keypair,
                                          local_config, access_token, refresh_token,
                                          minted, heartbeat_event, metrics_and_auth_tick,
                                          heartbeat_check_interval, session_start>>
                      ELSE ReturnErr(h.ret)
    /\ UNCHANGED <<genVars, envVars, attempts, steps, reported>>
SelectMessage ==
    /\ pc = "select"
    /\ packet_stream # <<>>
    /\ LET maybe_msg == Head(packet_stream) IN
         CASE maybe_msg.item = "Status" ->
              /\ ReturnErr(Err("GrpcError", "status"))
              /\ UNCHANGED <<consumed, txVars>>
         [] maybe_msg.item = "End" ->
              /\ ReturnErr(Err("GrpcStreamDisconnected", ""))
              /\ UNCHANGED <<consumed, txVars>>
         [] OTHER ->
              LET h == handle_relayer_packets(maybe_msg.resp, heartbeat_event,
                                              last_heartbeat_ts,
                                              local_config.trust_packets,
                                              relayer_stats)
              IN /\ consumed' = Append(consumed, maybe_msg.resp)
                 /\ packet_tx' = h.packet_tx
                 /\ verified_packet_tx' = h.verified_packet_tx
                 /\ heartbeat_tx' = h.heartbeat_tx
                 /\ IF h.ret = ResultOk
                      THEN /\ relayer_stats' = h.stats
                           /\ last_heartbeat_ts' = h.last_heartbeat_ts
                           /\ packet_stream' = Tail(packet_stream)
                           /\ pc' = "consume_packet_stream"
                           /\ UNCHANGED <<error_count, proxy_error, wake_at, result, keypair,
                                          local_config, access_token, refresh_token,
                                          minted, heartbeat_event, metrics_and_auth_tick,
                                          heartbeat_check_interval, session_start>>
                      ELSE ReturnErr(h.ret)
    /\ UNCHANGED <<genVars, envVars, attempts, steps, reported>>

\* `last_heartbeat_ts.elapsed() > local_config.oldest_allowed_heartbeat`
HeartbeatIsExpiredLate(last_ts, oldest) == now - last_ts > oldest + 1
HeartbeatIsExpiredEarly(last_ts, oldest) == now - last_ts >= oldest
HeartbeatIsExpired(last_ts, oldest) == now - last_ts > oldest

\* lines 390-394: the heartbeat-tick branch of the select
SelectHeartbeatTick ==
    /\ pc = "select"
    /\ now >= heartbeat_check_interval
    /\ IF HeartbeatIsExpired(last_heartbeat_ts, local_config.oldest_allowed_heartbeat)
         THEN ReturnErr(Err("HeartbeatExpired", ""))
         ELSE /\ heartbeat_check_interval' =
                     heartbeat_check_interval + local_config.expected_heartbeat_interval
              /\ pc' = "consume_packet_stream"
              /\ UNCHANGED <<error_count, proxy_error, wake_at, result, keypair, local_config,
                             access_token, refresh_token, minted, heartbeat_event,
                             packet_stream, relayer_stats, metrics_and_auth_tick,
                             last_heartbeat_ts, session_start>>
    /\ UNCHANGED <<genVars, envVars, attempts, steps, consumed, reported, txVars>>


\* line 371: METRICS_TICK.as_secs().saturating_mul(3).saturating_div(2)
refresh_within_s == (METRICS_TICK * 3) \div 2

\* maybe_refresh_auth_tokens: a token is due when it expires within
\* refresh_within seconds (or has already expired)
TokenIsDue(token, refresh_within) == token.expires_at_utc - now <= refresh_within

\* which RPC maybe_refresh_auth_tokens issues for the tokens it is given
RefreshKind(access, refresh, refresh_within) ==
    IF TokenIsDue(refresh, refresh_within) THEN "generate_new_tokens"
    ELSE IF TokenIsDue(access, refresh_within) THEN "refresh_access_token"
    ELSE "none"

\* line 399: cluster_info.id() != keypair.pubkey()
IdentityNeverChanged(cluster_kp, kp) == FALSE
IdentityChanged(cluster_kp, kp) == Pubkey(cluster_kp) # Pubkey(kp)

\* line 403: *global_config.lock().unwrap() != *local_config
ConfigChangedIgnoringTrust(global, local) ==
    [global EXCEPT !.trust_packets = FALSE] # [local EXCEPT !.trust_packets = FALSE]
ConfigChangedAlways(global, local) == TRUE
ConfigChanged(global, local) == global # local

\* line 395: `_ = metrics_and_auth_tick.tick() =>`, a branch of a select
\* without `biased;`: it can be taken whenever its own tick is due
MetricsTickReadyBiased == now >= metrics_and_auth_tick /\ packet_stream = <<>>
MetricsTickReady == now >= metrics_and_auth_tick

\* lines 395-413: the metrics-and-auth branch of the select, up to the point
\* where maybe_refresh_auth_tokens either returns (None, None) or awaits an RPC
SelectMetricsTickConfigFirst ==
    /\ pc = "select"
    /\ MetricsTickReady
    /\ reported' = <<[stats |-> relayer_stats, handled |-> Len(consumed)]>>
    /\ IF ConfigChanged(relayer_config, local_config)
         THEN ReturnErr(Err("AuthenticationConnectionError", "relayer config changed"))
         ELSE IF IdentityChanged(cluster_keypair, keypair)
         THEN ReturnErr(Err("AuthenticationConnectionError", "validator identity changed"))
         ELSE /\ relayer_stats' = RelayerStageStatsDefault
              /\ metrics_and_auth_tick' = metrics_and_auth_tick + METRICS_TICK
              /\ pc' = LET kind == RefreshKind(access_token, refresh_token, refresh_within_s)
                       IN IF kind = "none" THEN "consume_packet_stream" ELSE kind
              /\ UNCHANGED <<error_count, proxy_error, wake_at, result, keypair, local_config,
                             access_token, refresh_token, minted, heartbeat_event,
                             packet_stream, heartbeat_check_interval,
                             last_heartbeat_ts, session_start>>
    /\ UNCHANGED <<genVars, envVars, attempts, steps, consumed, txVars>>
SelectMetricsTick ==
    /\ pc = "select"
    /\ MetricsTickReady
    /\ reported' = <<[stats |-> relayer_stats, handled |-> Len(consumed)]>>
    /\ IF IdentityChanged(cluster_keypair, keypair)
         THEN ReturnErr(Err("AuthenticationConnectionError", "validator identity changed"))
         ELSE IF ConfigChanged(relayer_config, local_config)
         THEN ReturnErr(Err("AuthenticationConnectionError", "relayer config changed"))
         ELSE /\ relayer_stats' = RelayerStageStatsDefault
              /\ metrics_and_auth_tick' = metrics_and_auth_tick + METRICS_TICK
              /\ pc' = LET kind == RefreshKind(access_token, refresh_token, refresh_within_s)
                       IN IF kind = "none" THEN "consume_packet_stream" ELSE kind
              /\ UNCHANGED <<error_count, proxy_error, wake_at, result, keypair, local_config,
                             access_token, refresh_token, minted, heartbeat_event,
                             packet_stream, heartbeat_check_interval,
                             last_heartbeat_ts, session_start>>
    /\ UNCHANGED <<genVars, envVars, attempts, steps, consumed, txVars>>

\* line 422: *access_token.lock().unwrap() = new_token
StoreTokenExpiryOnly(cell, new_token) ==
    [cell EXCEPT !.expires_at_utc = new_token.expires_at_utc]
StoreToken(cell, new_token) == new_token

\* lines 407-432: the RPC of maybe_refresh_auth_tokens completes and the
\* tokens it returned are installed
RefreshReturn(outcome, life) ==
    /\ pc \in {"generate_new_tokens", "refresh_access_token"}
    /\ CASE outcome = "ok" /\ pc = "generate_new_tokens" ->
              /\ access_token' =
                     StoreToken(access_token,
                                Token(NextSerial(minted), now + life.access,
                                      Pubkey(cluster_keypair)))
              /\ refresh_token' =
                     Token(NextSerial(NextSerial(minted)), now + life.refresh,
                           Pubkey(cluster_keypair))
              /\ minted' = NextSerial(NextSerial(minted))
              /\ pc' = "consume_packet_stream"
              /\ UNCHANGED <<error_count, proxy_error, wake_at, result, keypair, local_config,
                             heartbeat_event, packet_stream, relayer_stats,
                             metrics_and_auth_tick, heartbeat_check_interval,
                             last_heartbeat_ts, session_start>>
         [] outcome = "ok" /\ pc = "refresh_access_token" ->
              /\ access_token' =
                     StoreToken(access_token,
                                Token(NextSerial(minted), now + life.access,
                                      refresh_token.pubkey))
              /\ minted' = NextSerial(minted)
              /\ pc' = "consume_packet_stream"
              /\ UNCHANGED <<error_count, proxy_error, wake_at, result, keypair, local_config,
                             refresh_token, heartbeat_event, packet_stream,
                             relayer_stats, metrics_and_auth_tick,
                             heartbeat_check_interval, last_heartbeat_ts, session_start>>
         [] outcome = "timeout" ->
              /\ ReturnErr(Err("MethodTimeout", pc))
         [] outcome = "denied" /\ pc = "generate_new_tokens" ->
              /\ ReturnErr(AuthenticationPermissionDenied)
         [] OTHER ->
              /\ ReturnErr(Err("MethodError", "status"))
    /\ UNCHANGED <<genVars, envVars, attempts, steps, consumed, reported, txVars>>

\* ------------------------------------------------------------------------
\* Environment
\* ------------------------------------------------------------------------
\* the validator sets the exit flag
SetExit ==
    /\ ~exit
    /\ exit' = TRUE
    /\ UNCHANGED <<genVars, relayer_config, cluster_keypair, disconnected,
                   supVars, connVars, loopVars, txVars>>

\* the admin surface replaces the shared RelayerConfig
SetRelayerConfig(config) ==
    /\ config # relayer_config
    /\ relayer_config' = config
    /\ UNCHANGED <<genVars, exit, cluster_keypair, disconnected,
                   supVars, connVars, loopVars, txVars>>

\* the validator identity is replaced
SetKeypair(kp) ==
    /\ kp # cluster_keypair
    /\ cluster_keypair' = kp
    /\ UNCHANGED <<genVars, exit, relayer_config, disconnected,
                   supVars, connVars, loopVars, txVars>>

\* the receiving side of a downstream channel is dropped
DropReceiver(chan) ==
    /\ chan \notin disconnected
    /\ disconnected' = disconnected \cup {chan}
    /\ UNCHANGED <<genVars, exit, relayer_config, cluster_keypair,
                   supVars, connVars, loopVars, txVars>>

StreamIsOpen ==
    /\ pc \in {"consume_packet_stream", "select",
               "generate_new_tokens", "refresh_access_token"}
    /\ IF Len(packet_stream) = 0 THEN TRUE
       ELSE packet_stream[Len(packet_stream)].item = "Some"

\* the relayer puts a message on the subscription
ServerSend(m) ==
    /\ StreamIsOpen
    /\ Len(packet_stream) + Len(consumed) < MaxMsgs
    /\ packet_stream' = Append(packet_stream, StreamSome(m))
    /\ UNCHANGED <<genVars, envVars, supVars, connVars, consumed, relayer_stats, reported,
                   metrics_and_auth_tick, heartbeat_check_interval,
                   last_heartbeat_ts, session_start, txVars>>

\* the relayer closes the subscription, cleanly or with a status
ServerClose(item) ==
    /\ StreamIsOpen
    /\ packet_stream' = Append(packet_stream, item)
    /\ UNCHANGED <<genVars, envVars, supVars, connVars, consumed, relayer_stats, reported,
                   metrics_and_auth_tick, heartbeat_check_interval,
                   last_heartbeat_ts, session_start, txVars>>

InLoop == pc \in {"consume_packet_stream", "select",
                   "generate_new_tokens", "refresh_access_token"}
HasTokens == InLoop \/ pc \in {"relayer_connect", "get_tpu_configs", "subscribe_packets"}

\* an instant one second later, seen from the new present
Shift(t) == IF t > -MaxLag /\ t < Far THEN t - 1 ELSE t

\* the task is suspended: asleep, awaiting the response of an RPC, or in a
\* select none of whose sources is ready.  A task that can run does so
\* before the clock moves.
Awaiting ==
    \/ pc = "sleep" /\ now < wake_at
    \/ pc \in {"auth_connect", "generate_auth_tokens", "relayer_connect",
               "get_tpu_configs", "subscribe_packets",
               "generate_new_tokens", "refresh_access_token"}
    \/ /\ pc = "select"
       /\ Len(packet_stream) = 0
       /\ now < heartbeat_check_interval
       /\ now < metrics_and_auth_tick

\* one second passes: every instant the task holds is one second older
Advance ==
    /\ Awaiting
    /\ wake_at' = IF pc = "sleep" THEN Shift(wake_at) ELSE wake_at
    /\ IF InLoop
         THEN /\ metrics_and_auth_tick' = Shift(metrics_and_auth_tick)
              /\ heartbeat_check_interval' = Shift(heartbeat_check_interval)
              /\ last_heartbeat_ts' = Shift(last_heartbeat_ts)
              /\ session_start' = Shift(session_start)
         ELSE UNCHANGED <<metrics_and_auth_tick, heartbeat_check_interval,
                          last_heartbeat_ts, session_start>>
    /\ IF HasTokens
         THEN /\ access_token' = [access_token EXCEPT !.expires_at_utc = Shift(@)]
              /\ refresh_token' = [refresh_token EXCEPT !.expires_at_utc = Shift(@)]
         ELSE UNCHANGED <<access_token, refresh_token>>
    /\ UNCHANGED <<genVars, envVars, pc, error_count, proxy_error, result, attempts, steps,
                   keypair, local_config, minted, heartbeat_event,
                   packet_stream, consumed, relayer_stats, reported, txVars>>

\* a second passes in a session whose relayer is punctual: the heartbeat of
\* the new instant is on the subscription as the instant begins
PunctualAdvance ==
    /\ Awaiting
    /\ StreamIsOpen
    /\ Len(packet_stream) + Len(consumed) < MaxMsgs
    /\ packet_stream' = Append(packet_stream, StreamSome(MsgHeartbeat))
    /\ metrics_and_auth_tick' = Shift(metrics_and_auth_tick)
    /\ heartbeat_check_interval' = Shift(heartbeat_check_interval)
    /\ last_heartbeat_ts' = Shift(last_heartbeat_ts)
    /\ session_start' = Shift(session_start)
    /\ access_token' = [access_token EXCEPT !.expires_at_utc = Shift(@)]
    /\ refresh_token' = [refresh_token EXCEPT !.expires_at_utc = Shift(@)]
    /\ UNCHANGED <<genVars, envVars, pc, error_count, proxy_error, result, attempts, steps,
                   wake_at, keypair, local_config, minted, heartbeat_event,
                   consumed, relayer_stats, reported, txVars>>

\* ------------------------------------------------------------------------
\* Specifications
\* ------------------------------------------------------------------------
ValidConfigs == { c \in Configs : validate_relayer_config(c) }
InitValid == Init /\ relayer_config \in ValidConfigs

\* the steps of one connection attempt, with tokens that outlive the session
Handshake ==
    \/ ConnectAuthAndStream
    \/ \E outcome \in {"ok", "timeout", "error"} : AuthConnect(outcome)
    \/ \E outcome \in {"ok", "timeout", "denied", "error"} :
          GenerateAuthTokens(outcome, LongLived)
    \/ \E outcome \in {"ok", "timeout", "error"} : RelayerConnect(outcome)
    \/ \E outcome \in {"ok", "timeout", "error"}, tpu_config \in TpuConfigResponses :
          GetTpuConfigs(outcome, tpu_config)
    \/ \E outcome \in {"ok", "timeout", "error"} : SubscribePackets(outcome)

\* the select loop
Consume ==
    \/ ConsumeWhile
    \/ SelectMessage
    \/ SelectHeartbeatTick
    \/ SelectMetricsTick

SupervisorConfigs ==
    { c \in Configs : ~c.trust_packets /\ c.backend_addr # ""
                         /\ c.oldest_allowed_heartbeat # 0 }

InitSupervisor == Init /\ relayer_config \in SupervisorConfigs

\* The supervisor with its whole environment except token expiry: the exit
\* flag, the admin surface, the relayer and the downstream receivers.
Next ==
    \/ StartLoop
    \/ WakeUp
    \/ Handshake
    \/ Consume
    \/ SetExit
    \/ \E config \in SupervisorConfigs : SetRelayerConfig(config)
    \/ \E chan \in {"heartbeat_tx", "packet_tx"} : DropReceiver(chan)
    \/ \E m \in {MsgHeartbeat, MsgBatch(<<ProtoPacket(1)>>)} : ServerSend(m)
    \/ \E item \in {StreamEnd, StreamStatus} : ServerClose(item)
    \/ Advance

Spec == InitSupervisor /\ [][Next]_vars

\* One session and every kind of message, with the receivers and the
\* trust_packets setting changing under it.
NextStream ==
    \/ StartLoop
    \/ Handshake
    \/ Consume
    \/ \E config \in ValidConfigs : SetRelayerConfig(config)
    \/ \E chan \in Channels : DropReceiver(chan)
    \/ \E m \in ServerMsgs : ServerSend(m)
    \/ \E item \in {StreamEnd, StreamStatus} : ServerClose(item)

SpecStream == InitValid /\ [][NextStream]_vars

\* The heartbeat watchdog: heartbeats, batches and the clock.
NextWatchdog ==
    \/ StartLoop
    \/ WakeUp
    \/ Handshake
    \/ Consume
    \/ \E m \in {MsgHeartbeat, MsgBatch(<<ProtoPacket(1)>>)} : ServerSend(m)
    \/ Advance

SpecWatchdog == InitValid /\ [][NextWatchdog]_vars

\* Drift of the identity and of the config under a running session.
NextDrift ==
    \/ StartLoop
    \/ WakeUp
    \/ Handshake
    \/ Consume
    \/ \E config \in ValidConfigs : SetRelayerConfig(config)
    \/ \E kp \in Keypairs : SetKeypair(kp)
    \/ \E m \in {MsgBatch(<<ProtoPacket(1)>>)} : ServerSend(m)
    \/ Advance

SpecDrift == InitValid /\ [][NextDrift]_vars

\* One attempt against an auth service that issues short-lived and
\* long-lived tokens: expiry and refresh.
Lives == {ShortLived, LongLived}

NextTokens ==
    \/ StartLoop
    \/ ConnectAuthAndStream
    \/ \E outcome \in {"ok", "timeout", "error"} : AuthConnect(outcome)
    \/ \E outcome \in {"ok", "timeout", "denied", "error"}, life \in Lives :
          GenerateAuthTokens(outcome, life)
    \/ \E outcome \in {"ok", "timeout", "error"} : RelayerConnect(outcome)
    \/ \E outcome \in {"ok", "timeout", "error"}, tpu_config \in TpuConfigResponses :
          GetTpuConfigs(outcome, tpu_config)
    \/ \E outcome \in {"ok", "timeout", "error"} : SubscribePackets(outcome)
    \/ Consume
    \/ \E outcome \in {"ok", "timeout", "denied", "error"}, life \in Lives :
          RefreshReturn(outcome, life)
    \/ \E kp \in Keypairs : SetKeypair(kp)
    \/ \E m \in {MsgHeartbeat} : ServerSend(m)
    \/ Advance

SpecTokens == InitValid /\ [][NextTokens]_vars

\* One attempt with every kind of message and the clock: the windows between
\* metrics ticks.
NextStats ==
    \/ StartLoop
    \/ Handshake
    \/ Consume
    \/ \E m \in ServerMsgs : ServerSend(m)
    \/ Advance

SpecStats == InitValid /\ [][NextStats]_vars

\* The supervisor and the admin surface, with every kind of invalid config;
\* the relayer only closes the stream.
NextConfig ==
    \/ StartLoop
    \/ WakeUp
    \/ Handshake
    \/ Consume
    \/ \E config \in Configs : SetRelayerConfig(config)
    \/ \E item \in {StreamEnd} : ServerClose(item)
    \/ Advance

SpecConfig == Init /\ [][NextConfig]_vars

\* The supervisor under a fair scheduler: a ready task is polled, an awaited
\* call returns (every one is under a timeout or a deadline) and the clock
\* advances.  The relayer only closes the stream.
NextLive ==
    \/ StartLoop
    \/ WakeUp
    \/ Handshake
    \/ Consume
    \/ SetExit
    \/ \E config \in SupervisorConfigs : SetRelayerConfig(config)
    \/ \E item \in {StreamEnd} : ServerClose(item)
    \/ Advance

Fairness ==
    /\ WF_vars(StartLoop)
    /\ WF_vars(WakeUp)
    /\ WF_vars(Handshake)
    /\ WF_vars(Consume)
    /\ WF_vars(Advance)

SpecLive ==
    /\ InitSupervisor
    /\ [][NextLive]_vars
    /\ Fairness

\* The select loop under a fair select: tokio::select! starts its poll at a
\* random branch, so a branch that is ready at infinitely many evaluations
\* is taken.  The relayer sends when it likes and the clock advances.
NextSelect ==
    \/ StartLoop
    \/ WakeUp
    \/ Handshake
    \/ ConsumeWhile
    \/ SelectMessage
    \/ SelectHeartbeatTick
    \/ SelectMetricsTick
    \/ \E m \in {MsgHeartbeat, MsgBatch(<<ProtoPacket(1)>>)} : ServerSend(m)
    \/ Advance

FairSelect ==
    /\ WF_vars(StartLoop)
    /\ WF_vars(WakeUp)
    /\ WF_vars(Handshake)
    /\ WF_vars(ConsumeWhile)
    /\ SF_vars(SelectMessage)
    /\ SF_vars(SelectHeartbeatTick)
    /\ SF_vars(SelectMetricsTick)
    /\ WF_vars(Advance)

SpecSelect ==
    /\ InitValid
    /\ [][NextSelect]_vars
    /\ FairSelect

\* One attempt against a relayer that answers get_tpu_configs with any pair
\* of u32 ports, in and out of the u16 range, and any pair of IP strings,
\* IPv4 or not.
TpuConfigs ==
    LET ports == {8001, 65535, 65536, 65536 + 8002}
        ips == { <<10, 0, 0, 1>>, <<10, 0, 0, 256>>, <<10, 0, 1>> }
        sockets == { [ip |-> ip, port |-> port] : ip \in ips, port \in ports }
    IN  TpuConfigResponses
          \cup { [tpu |-> <<tpu>>, tpu_forward |-> <<tpu_forward>>] :
                   tpu \in sockets, tpu_forward \in sockets }

NextTpuConfigs ==
    \/ StartLoop
    \/ ConnectAuthAndStream
    \/ \E outcome \in {"ok"} : AuthConnect(outcome)
    \/ \E outcome \in {"ok"} : GenerateAuthTokens(outcome, LongLived)
    \/ \E outcome \in {"ok"} : RelayerConnect(outcome)
    \/ \E outcome \in {"ok", "timeout", "error"}, tpu_config \in TpuConfigs :
          GetTpuConfigs(outcome, tpu_config)
    \/ \E outcome \in {"ok", "timeout", "error"} : SubscribePackets(outcome)
    \/ Consume
    \/ \E m \in {MsgHeartbeat} : ServerSend(m)
    \/ Advance

SpecTpuConfigs == InitValid /\ [][NextTpuConfigs]_vars

\* The metrics tick of one session: the identity and the config drifting
\* while tokens come due for a refresh.
NextTicks ==
    \/ StartLoop
    \/ ConnectAuthAndStream
    \/ \E outcome \in {"ok"} : AuthConnect(outcome)
    \/ \E outcome \in {"ok"}, life \in Lives : GenerateAuthTokens(outcome, life)
    \/ \E outcome \in {"ok"} : RelayerConnect(outcome)
    \/ \E outcome \in {"ok"}, tpu_config \in TpuConfigResponses :
          GetTpuConfigs(outcome, tpu_config)
    \/ \E outcome \in {"ok"} : SubscribePackets(outcome)
    \/ Consume
    \/ \E outcome \in {"ok", "error"}, life \in Lives : RefreshReturn(outcome, life)
    \/ \E kp \in Keypairs : SetKeypair(kp)
    \/ \E config \in ValidConfigs : SetRelayerConfig(config)
    \/ \E item \in {StreamEnd} : ServerClose(item)
    \/ Advance

SpecTicks == InitValid /\ [][NextTicks]_vars

\* One session under every error that can end it: refreshes that fail, the
\* receivers of the channels it sends on going away, and a stream that breaks.
NextSession ==
    \/ StartLoop
    \/ ConnectAuthAndStream
    \/ \E outcome \in {"ok"} : AuthConnect(outcome)
    \/ \E outcome \in {"ok"} : GenerateAuthTokens(outcome, ShortLived)
    \/ \E outcome \in {"ok"} : RelayerConnect(outcome)
    \/ \E outcome \in {"ok"}, tpu_config \in TpuConfigResponses :
          GetTpuConfigs(outcome, tpu_config)
    \/ \E outcome \in {"ok"} : SubscribePackets(outcome)
    \/ Consume
    \/ \E outcome \in {"ok", "timeout", "denied", "error"} :
          RefreshReturn(outcome, LongLived)
    \/ \E chan \in {"heartbeat_tx", PacketChannel(relayer_config.trust_packets)} :
          DropReceiver(chan)
    \/ \E m \in {MsgHeartbeat, MsgBatch(<<ProtoPacket(1)>>)} : ServerSend(m)
    \/ \E item \in {StreamStatus} : ServerClose(item)
    \/ Advance

SpecSession == InitValid /\ [][NextSession]_vars

\* Sessions with a punctual relayer: once the subscription is open a
\* heartbeat arrives every second, whatever the loop is doing; outside the
\* loop the clock moves alone.
NextPunctual ==
    \/ StartLoop
    \/ ConnectAuthAndStream
    \/ \E outcome \in {"ok"} : AuthConnect(outcome)
    \/ \E outcome \in {"ok"}, life \in Lives : GenerateAuthTokens(outcome, life)
    \/ \E outcome \in {"ok"} : RelayerConnect(outcome)
    \/ \E outcome \in {"ok"}, tpu_config \in TpuConfigResponses :
          GetTpuConfigs(outcome, tpu_config)
    \/ \E outcome \in {"ok"} : SubscribePackets(outcome)
    \/ Consume
    \/ \E outcome \in {"ok"} : RefreshReturn(outcome, LongLived)
    \/ PunctualAdvance
    \/ ~InLoop /\ Advance

SpecPunctual == InitValid /\ [][NextPunctual]_vars

\* a caller asks the TipManager for the tip balances of a bank
GetTipAccountBalancesAboveRentExempt ==
    /\ bank # NoBank
    /\ ~tip_balances.called
    /\ tip_balances' =
         [called |-> TRUE,
          balances |-> get_tip_account_balances_above_rent_exempt(bank)]
    /\ UNCHANGED <<bank, stake_meta_coll, relayerVars>>

InitTipManager ==
    /\ InitRelayerStage
    /\ relayer_config = NoConfig
    /\ bank \in TipManagerBanks
    /\ stake_meta_coll = NotRun
    /\ tip_balances = NotCalled

NextTipManager == GetTipAccountBalancesAboveRentExempt

SpecTipManager == InitTipManager /\ [][NextTipManager]_vars


\* ------------------------------------------------------------------------
\* Properties

\* ------------------------------------------------------------------------
\* The stake-meta generator: run_workflow on a frozen bank
\* ------------------------------------------------------------------------
\* lines 72-90: generate_stake_meta_collection(&bank, ..), in a build with or
\* without overflow checks
GenerateStakeMetaCollection(overflow_checks) ==
    /\ bank # NoBank
    /\ stake_meta_coll = NotRun
    /\ stake_meta_coll' = generate_stake_meta_collection(bank, overflow_checks)
    /\ UNCHANGED <<bank, tip_balances, relayerVars>>

InitStakeMeta ==
    /\ InitRelayerStage
    /\ relayer_config = NoConfig
    /\ bank \in Banks
    /\ stake_meta_coll = NotRun
    /\ tip_balances = NotCalled

NextStakeMeta ==
    \E overflow_checks \in BOOLEAN : GenerateStakeMetaCollection(overflow_checks)

SpecStakeMeta == InitStakeMeta /\ [][NextStakeMeta]_vars

\* ------------------------------------------------------------------------
IsNonEmptyBatch(m) == m.msg = "Batch" /\ Len(m.packets) > 0

\* the step handles a response taken from the stream
Handles(m) == consumed' = Append(consumed, m)

\* C1: a non-empty Batch handled by a session goes to exactly one downstream
\* channel: to verified_packet_tx, as a one-batch vector paired with None
\* tracer stats, when the session's trust_packets is true, and to packet_tx
\* otherwise; the other channel receives nothing, and the chosen channel
\* receives nothing only when its send fails with PacketForwardError.
C1_BatchOnExactlyOneChannel ==
    [][\A m \in ServerMsgs :
         (Handles(m) /\ IsNonEmptyBatch(m)) =>
           LET batch == [ i \in 1..Len(m.packets) |-> proto_packet_to_packet(m.packets[i]) ]
               failed == /\ result'.kind = "PacketForwardError"
                         /\ packet_tx' = packet_tx
                         /\ verified_packet_tx' = verified_packet_tx
           IN /\ heartbeat_tx' = heartbeat_tx
              /\ IF local_config.trust_packets
                   THEN /\ packet_tx' = packet_tx
                        /\ \/ "verified_packet_tx" \in disconnected /\ failed
                           \/ /\ "verified_packet_tx" \notin disconnected
                              /\ Len(verified_packet_tx') = Len(verified_packet_tx) + 1
                              /\ SubSeq(verified_packet_tx', 1, Len(verified_packet_tx))
                                    = verified_packet_tx
                              /\ verified_packet_tx'[Len(verified_packet_tx')].batches
                                    = <<batch>>
                              /\ verified_packet_tx'[Len(verified_packet_tx')].tracer_stats
                                    = "None"
                              /\ result'.kind # "PacketForwardError"
                   ELSE /\ verified_packet_tx' = verified_packet_tx
                        /\ \/ "packet_tx" \in disconnected /\ failed
                           \/ /\ "packet_tx" \notin disconnected
                              /\ Len(packet_tx') = Len(packet_tx) + 1
                              /\ SubSeq(packet_tx', 1, Len(packet_tx)) = packet_tx
                              /\ packet_tx'[Len(packet_tx')].batch = batch
                              /\ result'.kind # "PacketForwardError"
      ]_vars

\* a trusting session has delivered a batch after the shared config was
\* switched to trust_packets = false
C1_Witness ==
    /\ pc = "consume_packet_stream"
    /\ local_config.trust_packets
    /\ ~relayer_config.trust_packets
    /\ Len(verified_packet_tx) = 1
    /\ Len(packet_tx) = 0


\* the responses of the session whose handling ran to its end: a response
\* whose send failed ended the session before anything was emitted
SendFailed == result.kind \in {"PacketForwardError", "HeartbeatChannelError"}
HandledResponses ==
    IF SendFailed THEN SubSeq(consumed, 1, Len(consumed) - 1) ELSE consumed

IsEmitting(m) == m.msg = "Heartbeat" \/ IsNonEmptyBatch(m)
Increasing(tx) == \A i \in 1..(Len(tx) - 1) : tx[i].seq < tx[i + 1].seq

\* C2: within a session the downstream sends are, in order and one for one,
\* the heartbeats and non-empty batches among the responses handled: every
\* channel holds its items in the order they were sent, the k-th send of the
\* session is the event or the converted batch of the k-th such response, and
\* body-less messages and empty batches send nothing.
C2_EmissionsFollowStreamOrder ==
    LET expected == SelectSeq(HandledResponses, IsEmitting)
        sent == Len(packet_tx) + Len(verified_packet_tx) + Len(heartbeat_tx)
    IN /\ sent = Len(expected)
       /\ Increasing(packet_tx)
       /\ Increasing(verified_packet_tx)
       /\ Increasing(heartbeat_tx)
       /\ \A k \in 1..Len(expected) :
            IF expected[k].msg = "Heartbeat"
              THEN \E j \in 1..Len(heartbeat_tx) : heartbeat_tx[j].seq = k
              ELSE LET batch == [ i \in 1..Len(expected[k].packets) |->
                                    proto_packet_to_packet(expected[k].packets[i]) ]
                   IN \/ \E j \in 1..Len(packet_tx) :
                           packet_tx[j].seq = k /\ packet_tx[j].batch = batch
                      \/ \E j \in 1..Len(verified_packet_tx) :
                           /\ verified_packet_tx[j].seq = k
                           /\ verified_packet_tx[j].batches = <<batch>>

\* two different non-empty batches were delivered in the order of the stream
C2_Witness ==
    /\ Len(consumed) = 2
    /\ IsNonEmptyBatch(consumed[1])
    /\ IsNonEmptyBatch(consumed[2])
    /\ consumed[1] # consumed[2]
    /\ Len(packet_tx) = 2


\* C3: a heartbeat tick processed when the last heartbeat is older than
\* oldest_allowed_heartbeat ends the session with HeartbeatExpired, sending
\* nothing; and once a session has ended with HeartbeatExpired nothing more
\* is sent downstream until a new attempt starts.
C3_HeartbeatExpiryEndsSession ==
    [][/\ (/\ SelectHeartbeatTick
           /\ now - last_heartbeat_ts > local_config.oldest_allowed_heartbeat)
          => /\ result' = Err("HeartbeatExpired", "")
             /\ pc' = "sleep"
             /\ UNCHANGED txVars
       /\ (result.kind = "HeartbeatExpired" /\ attempts' = attempts)
          => /\ UNCHANGED txVars
             /\ ~InLoop'
      ]_vars

\* a session that had forwarded a batch ended with HeartbeatExpired
C3_Witness ==
    /\ result.kind = "HeartbeatExpired"
    /\ Len(packet_tx) > 0
    /\ pc = "sleep"

HandledHeartbeat == \E i \in 1..Len(consumed) : consumed[i].msg = "Heartbeat"

\* C8: within a session last_heartbeat_ts is set to the present when the
\* session starts and when a Heartbeat is handled, and no other step of the
\* task changes it, so it never moves back; a session that has handled no
\* heartbeat still holds the instant of its start.
C8_LastHeartbeatTs ==
    /\ [](InLoop /\ ~HandledHeartbeat => last_heartbeat_ts = session_start)
    /\ [][/\ (pc = "subscribe_packets" /\ InLoop') => last_heartbeat_ts' = now
          /\ (InLoop /\ InLoop' /\ Handles(MsgHeartbeat)) => last_heartbeat_ts' = now
          /\ (InLoop /\ InLoop' /\ ~Handles(MsgHeartbeat) /\ ~Advance)
                => last_heartbeat_ts' = last_heartbeat_ts
          /\ (InLoop /\ InLoop' /\ ~Advance) => last_heartbeat_ts' >= last_heartbeat_ts
         ]_vars

\* a batch was handled two seconds into a session that has seen no
\* heartbeat: the timestamp is still the session start
C8_Witness ==
    /\ InLoop
    /\ ~HandledHeartbeat
    /\ Len(consumed) > 0
    /\ last_heartbeat_ts = -2

HandshakeOrder ==
    <<"auth_connect", "generate_auth_tokens", "relayer_connect",
      "get_tpu_configs", "subscribe_packets">>
InHandshake == pc \in { HandshakeOrder[i] : i \in 1..Len(HandshakeOrder) }

\* C4: the steps taken by an attempt are a prefix of auth connect, token
\* generation, relayer connect, get_tpu_configs, subscribe_packets, each one
\* taken only after all the earlier ones succeeded; the select loop runs only
\* after all five succeeded; the relayer is connected and called only with the
\* tokens of this attempt in hand; and after a failed step the attempt is over.
C4_HandshakeOrder ==
    /\ Len(steps) <= Len(HandshakeOrder)
    /\ \A i \in 1..Len(steps) :
          /\ steps[i].step = HandshakeOrder[i]
          /\ i < Len(steps) => steps[i].ok
    /\ InHandshake => /\ Len(steps) < Len(HandshakeOrder)
                      /\ pc = HandshakeOrder[Len(steps) + 1]
                      /\ \A i \in 1..Len(steps) : steps[i].ok
    /\ InLoop => /\ Len(steps) = Len(HandshakeOrder)
                 /\ steps[Len(steps)].ok
    /\ (\E i \in 1..Len(steps) :
           steps[i].step \in {"relayer_connect", "get_tpu_configs", "subscribe_packets"})
         => /\ steps[1] = Step("auth_connect", TRUE)
            /\ steps[2] = Step("generate_auth_tokens", TRUE)
    /\ pc \in {"relayer_connect", "get_tpu_configs", "subscribe_packets"}
         => access_token # NoToken /\ refresh_token # NoToken
    /\ (Len(steps) > 0 /\ ~steps[Len(steps)].ok)
         => /\ pc \in {"sleep", "start", "done"}
            /\ result.kind \notin {"Ok", "None"}

\* an attempt got as far as get_tpu_configs and was aborted there
C4_Witness ==
    /\ Len(steps) = 4
    /\ ~steps[4].ok
    /\ result.kind = "MissingTpuSocket"
    /\ pc = "sleep"


\* C5: a metrics tick processed while the cluster identity differs from the
\* public key of the handshake keypair ends the session with "validator
\* identity changed"; the next attempt takes the keypair the cluster has then,
\* and its tokens are issued to that keypair.
C5_IdentityChangeEndsSession ==
    /\ [][/\ (SelectMetricsTick /\ Pubkey(cluster_keypair) # Pubkey(keypair))
               => /\ result' = Err("AuthenticationConnectionError",
                                    "validator identity changed")
                  /\ pc' = "sleep"
          /\ (pc = "connect_auth_and_stream" /\ pc' = "auth_connect")
               => keypair' = cluster_keypair
          ]_vars
    /\ [](HasTokens => /\ access_token.pubkey = Pubkey(keypair)
                       /\ refresh_token.pubkey = Pubkey(keypair))

\* the second session runs on a handshake made with the new keypair
C5_Witness ==
    /\ attempts = 2
    /\ InLoop
    /\ keypair = "kpB"
    /\ access_token.pubkey = Pubkey("kpB")


\* C6 as stated: a metrics tick processed while the shared config differs
\* from the session's snapshot ends the session with "relayer config changed".
C6_ConfigChangeAlwaysReported ==
    [][(SelectMetricsTick /\ relayer_config # local_config)
          => result' = Err("AuthenticationConnectionError", "relayer config changed")
      ]_vars

\* C6: a metrics tick processed while the shared config differs from the
\* session's snapshot, and the identity check of that tick passes, ends the
\* session with "relayer config changed"; the next attempt snapshots the
\* shared config it finds, and a session whose snapshot has trust_packets set
\* sends every batch to verified_packet_tx and none to packet_tx.
C6_ConfigChangeEndsSession ==
    /\ [][/\ (/\ SelectMetricsTick
              /\ relayer_config # local_config
              /\ Pubkey(cluster_keypair) = Pubkey(keypair))
               => /\ result' = Err("AuthenticationConnectionError",
                                    "relayer config changed")
                  /\ pc' = "sleep"
          /\ (pc = "connect_auth_and_stream" /\ pc' = "auth_connect")
               => local_config' = relayer_config
          ]_vars
    /\ []((InLoop /\ local_config.trust_packets)
            => /\ Len(packet_tx) = 0
               /\ Len(verified_packet_tx)
                     = Len(SelectSeq(HandledResponses, IsNonEmptyBatch)))

\* after trust_packets went from false to true the second session has sent
\* a batch to verified_packet_tx
C6_Witness ==
    /\ attempts = 2
    /\ InLoop
    /\ local_config.trust_packets
    /\ Len(verified_packet_tx) = 1
    /\ Len(packet_tx) = 0


\* C7: a stream that yields None ends the session with
\* GrpcStreamDisconnected and puts the supervisor to sleep for
\* CONNECTION_BACKOFF; the sleep ends no earlier than its deadline, at the
\* loop head; and from there a new attempt starts unless the exit flag is set
\* or the config is invalid when the loop head is evaluated.
C7_DisconnectThenReconnect ==
    /\ [][/\ (/\ pc = "select"
              /\ Len(packet_stream) > 0
              /\ Head(packet_stream) = StreamEnd
              /\ SelectMessage)
               => /\ result' = Err("GrpcStreamDisconnected", "")
                  /\ pc' = "sleep"
                  /\ wake_at' = now + CONNECTION_BACKOFF_S
          /\ (result.kind = "GrpcStreamDisconnected" /\ pc = "sleep" /\ pc' # pc)
               => /\ pc' = "start"
                  /\ now >= wake_at
          ]_vars
    /\ ((result.kind = "GrpcStreamDisconnected" /\ pc = "sleep" /\ attempts < MaxAttempts)
          ~> \/ pc = "connect_auth_and_stream"
             \/ pc = "start" /\ (exit \/ ~validate_relayer_config(relayer_config)))

\* the backoff after a disconnect is over and the supervisor is at the loop
\* head with the exit flag unset and a valid config
C7_Witness ==
    /\ result.kind = "GrpcStreamDisconnected"
    /\ pc = "start"
    /\ ~exit
    /\ validate_relayer_config(relayer_config)
    /\ attempts < MaxAttempts


C10_OnlyExitEndsSupervisor ==
    [][/\ (result' # result /\ result'.kind \notin {"Ok", "None"}) => pc' = "sleep"
       /\ (pc = "sleep" /\ pc' # pc) => pc' = "start"
       /\ (pc \notin {"done", "panicked"} /\ pc' \in {"done", "panicked"}) => exit
      ]_vars

\* C11: an attempt that ends with AuthenticationPermissionDenied leaves
\* error_count as it was, emits no relayer_stage-proxy_error datapoint and puts
\* the supervisor to sleep for 5 s; the sleep ends at its deadline, at the
\* loop head.
C11_PermissionDeniedOnlyWarns ==
    [][/\ (result' = AuthenticationPermissionDenied /\ result' # result)
           => /\ error_count' = error_count
              /\ proxy_error' = proxy_error
              /\ pc' = "sleep"
              /\ wake_at' = now + 5
       /\ (result = AuthenticationPermissionDenied /\ pc = "sleep" /\ pc' # pc)
           => /\ pc' = "start"
              /\ now >= wake_at
              /\ error_count' = error_count
              /\ proxy_error' = proxy_error
      ]_vars

\* the second attempt was denied after the first had failed otherwise: the
\* count still is 1 and the backoff is over
C11_Witness ==
    /\ result = AuthenticationPermissionDenied
    /\ attempts = 2
    /\ error_count = 1
    /\ proxy_error = <<>>
    /\ pc = "start"


IsCountedError(r) == r.kind \notin {"Ok", "NoResult", "AuthenticationPermissionDenied"}

\* C12: an attempt or session that ends with an error other than
\* AuthenticationPermissionDenied adds exactly 1 to error_count, emits one
\* relayer_stage-proxy_error datapoint with the new count and the error, and
\* puts the supervisor to sleep for 5 s whatever the count; the sleep never
\* exceeds 5 s and ends at the loop head; and after HeartbeatExpired the loop
\* head is reached, where a new attempt starts unless the exit flag is set or
\* the config is invalid.
C12_CountedErrorThenFixedBackoff ==
    /\ [][/\ (result' # result /\ IsCountedError(result'))
               => /\ error_count' = error_count + 1
                  /\ proxy_error' = Append(proxy_error,
                                           [count |-> error_count + 1, error |-> result'])
                  /\ pc' = "sleep"
                  /\ wake_at' = now + 5
          /\ (IsCountedError(result) /\ pc = "sleep" /\ pc' # pc)
               => /\ pc' = "start"
                  /\ now >= wake_at
          ]_vars
    /\ [](pc = "sleep" => (wake_at >= now /\ wake_at <= now + 5))
    /\ ((result.kind = "HeartbeatExpired" /\ pc = "sleep" /\ attempts < MaxAttempts)
          ~> \/ pc = "connect_auth_and_stream"
             \/ pc = "start" /\ (exit \/ ~validate_relayer_config(relayer_config)))

\* the second error of the run was a heartbeat expiry: it was reported with
\* count 2 and its 5 s backoff is over
C12_Witness ==
    /\ result.kind = "HeartbeatExpired"
    /\ error_count = 2
    /\ proxy_error = <<[count |-> 2, error |-> Err("HeartbeatExpired", "")]>>
    /\ pc = "start"
    /\ wake_at = 0


\* every combination of empty and non-empty addresses and of zero and
\* positive durations
AllConfigs ==
    { MkConfig(auth, backend, interval, oldest, trust) :
        auth \in {"", "https://auth"}, backend \in {"", "https://relayer"},
        interval \in 0..2, oldest \in 0..2, trust \in BOOLEAN }

\* C13: a config is invalid exactly when one of its addresses is empty or one
\* of its durations is zero; a loop head that finds the shared config invalid
\* starts no attempt, touches neither error_count nor the datapoints nor any
\* connection state, and sleeps 5 s, after which the loop head runs again.
C13_InvalidConfigBacksOff ==
    /\ [](\A c \in AllConfigs \cup {relayer_config} :
            ~validate_relayer_config(c)
               <=> \/ c.auth_service_addr = ""
                   \/ c.backend_addr = ""
                   \/ c.oldest_allowed_heartbeat = 0
                   \/ c.expected_heartbeat_interval = 0)
    /\ [][/\ (/\ pc = "start"
                /\ ~exit
                /\ \/ relayer_config.auth_service_addr = ""
                   \/ relayer_config.backend_addr = ""
                   \/ relayer_config.oldest_allowed_heartbeat = 0
                   \/ relayer_config.expected_heartbeat_interval = 0
                /\ pc' # pc)
               => /\ pc' = "sleep"
                  /\ wake_at' = now + CONNECTION_BACKOFF_S
                  /\ UNCHANGED <<attempts, steps, error_count, proxy_error, result,
                                 connVars, loopVars, txVars>>
          /\ (pc = "sleep" /\ pc' # pc) => (pc' = "start" /\ now >= wake_at)
          ]_vars

\* the supervisor has never made an attempt and is three seconds into the
\* backoff it took for a zero oldest_allowed_heartbeat
C13_Witness ==
    /\ pc = "sleep"
    /\ attempts = 0
    /\ steps = <<>>
    /\ wake_at = 2
    /\ relayer_config.oldest_allowed_heartbeat = 0

IsHeartbeat(m) == m.msg = "Heartbeat"

\* C14: the events on heartbeat_tx are one for each Heartbeat the session
\* handled, every one of them the pair (tpu socket, tpu_forward socket) of the
\* get_tpu_configs response of this attempt; a Heartbeat handled while the
\* receiver is there appends one event and the session goes on, and one
\* handled after the receiver was dropped sends nothing and ends the session
\* with HeartbeatChannelError.
C14_OneEventPerHeartbeat ==
    /\ [](/\ Len(heartbeat_tx) = Len(SelectSeq(HandledResponses, IsHeartbeat))
           /\ Len(heartbeat_tx) > 0
                => /\ Len(steps) >= 4
                   /\ steps[4].step = "get_tpu_configs"
                   /\ Len(steps[4].response) = 1
                   /\ LET r == steps[4].response[1] IN
                        \A j \in 1..Len(heartbeat_tx) :
                          heartbeat_tx[j].event =
                            << [ip |-> r.tpu[1].ip, port |-> r.tpu[1].port % 65536],
                               [ip |-> r.tpu_forward[1].ip,
                                port |-> r.tpu_forward[1].port % 65536] >>)
    /\ [][/\ (Handles(MsgHeartbeat) /\ "heartbeat_tx" \notin disconnected)
               => /\ Len(heartbeat_tx') = Len(heartbeat_tx) + 1
                  /\ SubSeq(heartbeat_tx', 1, Len(heartbeat_tx)) = heartbeat_tx
                  /\ result' = result
                  /\ InLoop'
          /\ (Handles(MsgHeartbeat) /\ "heartbeat_tx" \in disconnected)
               => /\ heartbeat_tx' = heartbeat_tx
                  /\ result' = Err("HeartbeatChannelError", "")
                  /\ pc' = "sleep"
          /\ (InLoop /\ InLoop') => heartbeat_event' = heartbeat_event
          ]_vars

\* one heartbeat was forwarded, with the forward port cut to 16 bits, and the
\* send for the next one failed
C14_Witness ==
    /\ Len(heartbeat_tx) = 1
    /\ heartbeat_tx[1].event[2].port = 8002
    /\ Len(consumed) = 2
    /\ result.kind = "HeartbeatChannelError"

\* C18: get_tpu_configs ends the attempt with MissingTpuSocket("tpu") when
\* the response has no tpu address, with MissingTpuSocket("tpu_fwd") when it
\* has a tpu address but no tpu_forward address, with
\* MethodTimeout("relayer_get_tpu_configs") on a timeout and with MethodError
\* on an RPC error; an attempt whose get_tpu_configs step failed has taken no
\* further step, is not in the select loop and has sent nothing downstream.
C18_TpuConfigFailures ==
    /\ [][\A r \in TpuConfigResponses :
            /\ (GetTpuConfigs("ok", r) /\ r.tpu = <<>>)
                 => result' = Err("MissingTpuSocket", "tpu")
            /\ (GetTpuConfigs("ok", r) /\ r.tpu # <<>> /\ r.tpu_forward = <<>>)
                 => result' = Err("MissingTpuSocket", "tpu_fwd")
            /\ GetTpuConfigs("timeout", r)
                 => result' = Err("MethodTimeout", "relayer_get_tpu_configs")
            /\ GetTpuConfigs("error", r)
                 => result'.kind = "MethodError"
          ]_vars
    /\ []((Len(steps) >= 4 /\ ~steps[4].ok)
            => /\ Len(steps) = 4
               /\ pc \in {"sleep", "start", "done"}
               /\ packet_tx = <<>>
               /\ verified_packet_tx = <<>>
               /\ heartbeat_tx = <<>>
               /\ consumed = <<>>)

\* the response had neither address and the attempt ended on the tpu one
C18_Witness ==
    /\ Len(steps) = 4
    /\ steps[4].response = <<[tpu |-> <<>>, tpu_forward |-> <<>>]>>
    /\ result = Err("MissingTpuSocket", "tpu")
    /\ pc = "sleep"

RECURSIVE NumPackets(_)
NumPackets(responses) ==
    IF responses = <<>> THEN 0
    ELSE Len(Head(responses).packets) + NumPackets(Tail(responses))

IsEmptyMessage(m) == m.msg = "None" \/ (m.msg = "Batch" /\ Len(m.packets) = 0)

\* what a window of responses adds up to
StatsOf(responses) ==
    [num_empty_messages |-> Len(SelectSeq(responses, IsEmptyMessage)),
     num_packets |-> NumPackets(SelectSeq(responses, IsNonEmptyBatch)),
     num_heartbeats |-> Len(SelectSeq(responses, IsHeartbeat))]

\* the responses handled since the last metrics tick of the session
Window ==
    SubSeq(consumed, (IF reported = <<>> THEN 0 ELSE reported[1].handled) + 1,
           Len(consumed))

\* C17: the stats a metrics tick reports are the counts of what was handled
\* since the previous tick of the session (since its start for the first):
\* heartbeats, packets of non-empty batches, and body-less messages plus
\* empty batches; when the session goes on the three counters are 0 after the
\* report, and between ticks they hold the counts of the current window.
C17_StatsPerWindow ==
    /\ [][SelectMetricsTick
            => /\ Len(reported') = 1
               /\ reported'[1].stats = StatsOf(Window)
               /\ reported'[1].handled = Len(consumed)
               /\ InLoop' => relayer_stats' = [num_empty_messages |-> 0,
                                                num_packets |-> 0,
                                                num_heartbeats |-> 0]
          ]_vars
    /\ [](InLoop => relayer_stats = StatsOf(Window))

\* a heartbeat was handled in an earlier window; the last tick reported only
\* the two packets of the batch handled after it
C17_Witness ==
    /\ InLoop
    /\ Len(consumed) = 2
    /\ consumed[1] = MsgHeartbeat
    /\ Len(reported) = 1
    /\ reported[1] = [stats |-> [num_empty_messages |-> 0, num_packets |-> 2,
                                  num_heartbeats |-> 0],
                       handled |-> 2]

\* C19 as stated: a metrics tick that finds the shared config replaced ends
\* the session through the clean outcome, with error_count untouched and no
\* relayer_stage-proxy_error datapoint.
C19_ConfigChangeEndsCleanly ==
    [][(SelectMetricsTick /\ relayer_config # local_config)
          => /\ result' = ResultOk
             /\ error_count' = error_count
             /\ proxy_error' = proxy_error
      ]_vars

\* C19: a metrics tick that finds the shared config replaced ends the
\* session with an AuthenticationConnectionError ("relayer config changed",
\* or "validator identity changed" when the identity changed as well), which
\* the supervisor counts like any other error: error_count goes up by 1, one
\* relayer_stage-proxy_error datapoint carries the new count and the error,
\* and the supervisor sleeps CONNECTION_BACKOFF; the outcome is never Ok.
C19_ConfigChangeIsCountedError ==
    [][(SelectMetricsTick /\ relayer_config # local_config)
          => /\ result'.kind = "AuthenticationConnectionError"
             /\ result'.msg = IF Pubkey(cluster_keypair) = Pubkey(keypair)
                                THEN "relayer config changed"
                                ELSE "validator identity changed"
             /\ error_count' = error_count + 1
             /\ proxy_error' = <<[count |-> error_count + 1, error |-> result']>>
             /\ pc' = "sleep"
             /\ wake_at' = now + CONNECTION_BACKOFF_S
      ]_vars

\* the session that handled a batch ended on the replaced config and the
\* supervisor, having counted the error, starts its backoff
C19_Witness ==
    /\ result = Err("AuthenticationConnectionError", "relayer config changed")
    /\ Len(consumed) = 1
    /\ error_count = 1
    /\ Len(proxy_error) = 1
    /\ pc = "sleep"
    /\ wake_at = CONNECTION_BACKOFF_S

RefreshReturnsToken ==
    /\ pc \in {"generate_new_tokens", "refresh_access_token"}
    /\ pc' = "consume_packet_stream"

\* C15: when the refresh of a metrics tick returns a new access token the
\* cell becomes that token, whole: the next serial with the expiry and the
\* owner it was issued with, none of them left over from the token replaced;
\* no other step of a session changes which token the cell holds; and the
\* token the refresh decision of a tick reads is the one in the cell.
C15_CellHoldsLatestAccessToken ==
    [][/\ RefreshReturnsToken
           => /\ \E life \in Lives :
                    access_token' =
                      [serial |-> NextSerial(minted),
                       expires_at_utc |-> now + life.access,
                       pubkey |-> IF pc = "generate_new_tokens"
                                    THEN Pubkey(cluster_keypair)
                                    ELSE refresh_token.pubkey]
              /\ access_token'.serial # access_token.serial
       /\ (InLoop /\ InLoop' /\ ~RefreshReturnsToken)
           => /\ access_token'.serial = access_token.serial
              /\ access_token'.pubkey = access_token.pubkey
       /\ (pc = "select" /\ pc' = "refresh_access_token")
           => /\ access_token.expires_at_utc - now <= 1
              /\ refresh_token.expires_at_utc - now > 1
      ]_vars

\* the access token of the handshake was replaced by a refreshed one that
\* is long-lived, under the refresh token of the handshake
C15_Witness ==
    /\ InLoop
    /\ access_token.serial = 3
    /\ access_token.expires_at_utc = Far
    /\ refresh_token.serial = 2
    /\ refresh_token.expires_at_utc < Far


\* C16: every RPC on the relayer channel, get_tpu_configs and
\* subscribe_packets, is sent with an access token that has not expired.
C16_RpcCarriesUnexpiredToken ==
    [][(\/ pc = "relayer_connect" /\ pc' = "get_tpu_configs"
        \/ pc = "get_tpu_configs" /\ pc' = "subscribe_packets")
          => access_token'.expires_at_utc >= now
      ]_vars

RECURSIVE SumLamportsDelegated(_)
SumLamportsDelegated(delegations) ==
    IF delegations = <<>> THEN 0
    ELSE Head(delegations).lamports_delegated + SumLamportsDelegated(Tail(delegations))

\* the stake accounts of a bank that name a voter and have effective stake
DelegationsTo(b, voter_pubkey) ==
    { s \in DOMAIN b.stake_delegations :
        /\ b.stake_delegations[s].exists
        /\ b.stake_delegations[s].effective > 0
        /\ b.stake_delegations[s].voter_pubkey = voter_pubkey }

\* the stake delegated by a set of stake accounts, as an integer
RECURSIVE SumStake(_, _)
SumStake(b, stake_pubkeys) ==
    IF stake_pubkeys = {} THEN 0
    ELSE LET s == CHOOSE x \in stake_pubkeys : TRUE IN
         b.stake_delegations[s].stake + SumStake(b, stake_pubkeys \ {s})

StakeMetas == stake_meta_coll.stake_metas
Generated == stake_meta_coll.kind = "Ok"

\* C21: in every StakeMeta of a generated collection total_delegated is the
\* sum of lamports_delegated over its delegations, and when the stake
\* delegated to an epoch vote account does not fit in a u64 the generator
\* gives no collection.
C21_TotalDelegatedIsTheSum ==
    /\ Generated =>
          \A i \in 1..Len(StakeMetas) :
             /\ StakeMetas[i].total_delegated
                  = SumLamportsDelegated(StakeMetas[i].delegations)
             /\ StakeMetas[i].total_delegated
                  = SumStake(bank, DelegationsTo(bank, StakeMetas[i].validator_vote_account))
    /\ (\E v \in bank.epoch_vote_accounts :
            SumStake(bank, DelegationsTo(bank, v)) > U64_MAX)
          => ~Generated

\* a collection with a StakeMeta of two delegations, one of them with less
\* effective stake than it delegates
C21_Witness ==
    /\ Generated
    /\ \E i \in 1..Len(StakeMetas) :
          /\ Len(StakeMetas[i].delegations) = 2
          /\ \E s \in DelegationsTo(bank, StakeMetas[i].validator_vote_account) :
                bank.stake_delegations[s].effective < bank.stake_delegations[s].stake

\* what the tip PDAs of a bank hold above their rent-exempt minimum, as an
\* integer
RECURSIVE ExcessOfPdas(_, _)
ExcessOfPdas(b, n) ==
    IF n = 0 THEN 0
    ELSE LET acc == b.accounts[tip_pdas[n]] IN
         acc.lamports - get_minimum_balance_for_rent_exemption(acc.data_len)
           + ExcessOfPdas(b, n - 1)

\* the TipDistributionAccount of a vote account in the bank
TdaAddress(vote_pubkey) == derive_tip_distribution_account_address(vote_pubkey, bank.epoch)
TdaAccount(vote_pubkey) == bank.accounts[TdaAddress(vote_pubkey)]

\* C22: a StakeMeta of a generated collection has a TipDistributionMeta
\* exactly when the TipDistributionAccount of its vote account exists in the
\* bank, and its total_tips is the lamports of that account minus its
\* rent-exempt minimum, plus the excess of the tip PDAs if and only if the
\* account is the tip_receiver.
C22_ExcessGoesToTipReceiver ==
    Generated =>
      \A i \in 1..Len(StakeMetas) :
         LET v == StakeMetas[i].validator_vote_account
             meta == StakeMetas[i].maybe_tip_distribution_meta
         IN /\ meta.exists = TdaAccount(v).exists
            /\ meta.exists =>
                 /\ meta.tip_distribution_pubkey = TdaAddress(v)
                 /\ meta.total_tips =
                      TdaAccount(v).lamports
                        - get_minimum_balance_for_rent_exemption(TdaAccount(v).data_len)
                        + (IF TdaAddress(v) = bank.tip_receiver
                             THEN ExcessOfPdas(bank, NumTipPdas)
                             ELSE 0)

\* two StakeMetas with a TipDistributionMeta, one of them of the tip_receiver,
\* with the tip PDAs holding an excess
C22_Witness ==
    /\ Generated
    /\ Len(StakeMetas) = 2
    /\ \A i \in 1..2 : StakeMetas[i].maybe_tip_distribution_meta.exists
    /\ ExcessOfPdas(bank, NumTipPdas) >= 2
    /\ \E i \in 1..2 :
          /\ StakeMetas[i].maybe_tip_distribution_meta.tip_distribution_pubkey
               = bank.tip_receiver
          /\ StakeMetas[i].maybe_tip_distribution_meta.total_tips
               > ExcessOfPdas(bank, NumTipPdas)

\* the sum of total_tips over the TipDistributionMetas of a list of StakeMetas
RECURSIVE SumTotalTips(_)
SumTotalTips(stake_metas) ==
    IF stake_metas = <<>> THEN 0
    ELSE (IF Head(stake_metas).maybe_tip_distribution_meta.exists
            THEN Head(stake_metas).maybe_tip_distribution_meta.total_tips
            ELSE 0)
           + SumTotalTips(Tail(stake_metas))

\* what the recorded TipDistributionAccounts hold in the bank above their
\* rent-exempt minimum
RECURSIVE SumRecordedTdas(_)
SumRecordedTdas(stake_metas) ==
    IF stake_metas = <<>> THEN 0
    ELSE LET acc == TdaAccount(Head(stake_metas).validator_vote_account) IN
         (IF acc.exists
            THEN acc.lamports - get_minimum_balance_for_rent_exemption(acc.data_len)
            ELSE 0)
           + SumRecordedTdas(Tail(stake_metas))

\* the tip_receiver is the TipDistributionAccount, of the bank's epoch, of an
\* epoch vote account that has delegations
TipReceiverIsRecorded ==
    \E v \in bank.epoch_vote_accounts :
       /\ TdaAddress(v) = bank.tip_receiver
       /\ TdaAccount(v).exists
       /\ DelegationsTo(bank, v) # {}

\* C23 as stated: in every generated collection the total_tips add up to
\* what the recorded TipDistributionAccounts hold above rent-exempt plus the
\* excess of the tip PDAs.
C23_ExcessAlwaysCredited ==
    Generated =>
      SumTotalTips(StakeMetas)
        = SumRecordedTdas(StakeMetas) + ExcessOfPdas(bank, NumTipPdas)

\* C23, amended: the excess of the tip PDAs is part of the total_tips, once,
\* when the tip_receiver is the TipDistributionAccount of this epoch of an
\* epoch vote account with delegations; otherwise the total_tips add up to
\* what the recorded TipDistributionAccounts hold above rent-exempt and the
\* excess is in no StakeMeta.
C23_ExcessCreditedToRecordedReceiver ==
    Generated =>
      SumTotalTips(StakeMetas)
        = SumRecordedTdas(StakeMetas)
            + (IF TipReceiverIsRecorded THEN ExcessOfPdas(bank, NumTipPdas) ELSE 0)

\* a collection with a TipDistributionMeta, generated from a bank whose tip
\* PDAs hold an excess and whose tip_receiver is not recorded
C23_Witness ==
    /\ Generated
    /\ ExcessOfPdas(bank, NumTipPdas) > 0
    /\ ~TipReceiverIsRecorded
    /\ SumTotalTips(StakeMetas) > 0

\* a tip PDA of the bank holds less than its rent-exempt minimum
PdaBelowRentExempt(i) ==
    bank.accounts[tip_pdas[i]].lamports
      < get_minimum_balance_for_rent_exemption(bank.accounts[tip_pdas[i]].data_len)

\* C24: when one of the 8 tip PDAs holds fewer lamports than its rent-exempt
\* minimum the generator panics with "tip balance underflow" and gives no
\* collection.
C24_TipBalanceUnderflowIsFatal ==
    (stake_meta_coll # NotRun /\ \E i \in 1..NumTipPdas : PdaBelowRentExempt(i))
      => stake_meta_coll = Panic("tip balance underflow")

\* the generator has panicked on a bank with a tip PDA below its minimum,
\* another above it, and a vote account with delegations
C24_Witness ==
    /\ stake_meta_coll = Panic("tip balance underflow")
    /\ \E i \in 1..NumTipPdas : PdaBelowRentExempt(i)
    /\ \E i \in 1..NumTipPdas :
          bank.accounts[tip_pdas[i]].lamports
            > get_minimum_balance_for_rent_exemption(bank.accounts[tip_pdas[i]].data_len)
    /\ \E v \in bank.epoch_vote_accounts : DelegationsTo(bank, v) # {}

\* the positions of the StakeMetas of a vote account in the collection
StakeMetasOf(vote_pubkey) ==
    { i \in 1..Len(StakeMetas) : StakeMetas[i].validator_vote_account = vote_pubkey }

\* C25: a generated collection holds one StakeMeta for each epoch vote
\* account that a stake delegation with effective stake names as voter, and
\* none for any other vote account; the delegations of a StakeMeta are the
\* stake accounts with effective stake that name its vote account, each
\* once, so never an empty list.
C25_OneStakeMetaPerDelegatedVoter ==
    Generated =>
      /\ \A v \in VotePubkeys :
            Cardinality(StakeMetasOf(v)) =
              IF v \in bank.epoch_vote_accounts /\ DelegationsTo(bank, v) # {}
                THEN 1 ELSE 0
      /\ \A i \in 1..Len(StakeMetas) :
            LET delegations == StakeMetas[i].delegations IN
            /\ StakeMetas[i].validator_vote_account \in VotePubkeys
            /\ delegations # <<>>
            /\ { delegations[k].stake_account_pubkey : k \in 1..Len(delegations) }
                 = DelegationsTo(bank, StakeMetas[i].validator_vote_account)
            /\ Len(delegations)
                 = Cardinality(DelegationsTo(bank, StakeMetas[i].validator_vote_account))

\* one StakeMeta, while a delegation with effective stake names a voter that
\* is not an epoch vote account
C25_Witness ==
    /\ Generated
    /\ Len(StakeMetas) = 1
    /\ \E v \in VotePubkeys :
          v \notin bank.epoch_vote_accounts /\ DelegationsTo(bank, v) # {}

\* the low 16 bits of a u32
Low16(port) == port - 65536 * (port \div 65536)

BothSockets(r) == r.tpu # <<>> /\ r.tpu_forward # <<>>
BothIpv4(r) == ParseIpv4Ok(r.tpu[1].ip) /\ ParseIpv4Ok(r.tpu_forward[1].ip)

\* C26: a get_tpu_configs response with both addresses and IPv4 strings
\* gives the HeartbeatEvent its two IPs and the low 16 bits of its two u32
\* ports, without error, and every heartbeat forwarded carries that event; a
\* response with an IP string that is not IPv4 ends the attempt with an
\* error at that step, before subscribe_packets is called.
C26_PortsTruncatedIpsParsed ==
    /\ [][\A r \in TpuConfigs :
            /\ (GetTpuConfigs("ok", r) /\ BothSockets(r) /\ BothIpv4(r))
                 => /\ heartbeat_event' =
                         << [ip |-> r.tpu[1].ip, port |-> Low16(r.tpu[1].port)],
                            [ip |-> r.tpu_forward[1].ip,
                             port |-> Low16(r.tpu_forward[1].port)] >>
                    /\ pc' = "subscribe_packets"
                    /\ result' = result
            /\ (GetTpuConfigs("ok", r) /\ BothSockets(r) /\ ~BothIpv4(r))
                 => /\ result'.kind = "InvalidSocketAddress"
                    /\ pc' = "sleep"
          ]_vars
    /\ [](\A i \in 1..Len(heartbeat_tx) :
            LET r == steps[4].response[1] IN
            /\ heartbeat_tx[i].event[1].port = Low16(r.tpu[1].port)
            /\ heartbeat_tx[i].event[2].port = Low16(r.tpu_forward[1].port)
            /\ heartbeat_tx[i].event[1].port \in 0..65535
            /\ heartbeat_tx[i].event[2].port \in 0..65535)
    /\ []((/\ Len(steps) >= 4
           /\ steps[4].response # <<>>
           /\ BothSockets(steps[4].response[1])
           /\ ~BothIpv4(steps[4].response[1]))
            => /\ Len(steps) = 4
               /\ result.kind = "InvalidSocketAddress"
               /\ pc \in {"sleep", "start", "done"}
               /\ heartbeat_tx = <<>>)

\* a heartbeat was forwarded whose two ports were cut from 65536 and from
\* 65536 + 8002
C26_Witness ==
    /\ Len(heartbeat_tx) = 1
    /\ steps[4].response[1].tpu[1].port = 65536
    /\ steps[4].response[1].tpu_forward[1].port = 65536 + 8002
    /\ heartbeat_tx[1].event[1].port = 0
    /\ heartbeat_tx[1].event[2].port = 8002

\* C27: handling a message with no body, or a Batch with no packets, adds 1
\* to num_empty_messages and leaves num_packets, num_heartbeats,
\* last_heartbeat_ts and the three channels as they were; the session goes
\* on.
C27_EmptyMessageOnlyCounted ==
    [][(/\ SelectMessage
        /\ Head(packet_stream).item = "Some"
        /\ IsEmptyMessage(Head(packet_stream).resp))
         => /\ relayer_stats' =
                 [relayer_stats EXCEPT !.num_empty_messages = @ + 1]
            /\ relayer_stats'.num_packets = relayer_stats.num_packets
            /\ relayer_stats'.num_heartbeats = relayer_stats.num_heartbeats
            /\ last_heartbeat_ts' = last_heartbeat_ts
            /\ packet_tx' = packet_tx
            /\ verified_packet_tx' = verified_packet_tx
            /\ heartbeat_tx' = heartbeat_tx
            /\ pc' = "consume_packet_stream"
            /\ result' = result
      ]_vars

\* a heartbeat was forwarded, and later than that an empty Batch was counted
C27_Witness ==
    /\ Len(consumed) = 2
    /\ consumed[1] = MsgHeartbeat
    /\ consumed[2] = MsgBatch(<<>>)
    /\ Len(heartbeat_tx) = 1
    /\ relayer_stats.num_empty_messages = 1
    /\ last_heartbeat_ts < now

\* the checks of a metrics tick, read off the state the tick starts in
IdentityDrifted == Pubkey(cluster_keypair) # Pubkey(keypair)
ConfigDrifted == relayer_config # local_config
RefreshDue ==
    \/ refresh_token.expires_at_utc - now <= refresh_within_s
    \/ access_token.expires_at_utc - now <= refresh_within_s

\* C28: a metrics tick reports the stats of its window first, whatever
\* follows; then a changed identity ends the session with "validator
\* identity changed", also when the config changed as well; then a changed
\* config ends it with "relayer config changed"; and only a tick that passed
\* both checks resets the stats of the window for the loop and issues the
\* refresh RPC that is due.  A tick that failed a check issues no refresh RPC
\* and installs no token: the session is over and its tokens go with it.
C28_TickOrder ==
    [][SelectMetricsTick
         => /\ reported' = <<[stats |-> relayer_stats, handled |-> Len(consumed)]>>
            /\ IdentityDrifted
                 => result' = Err("AuthenticationConnectionError",
                                  "validator identity changed")
            /\ (~IdentityDrifted /\ ConfigDrifted)
                 => result' = Err("AuthenticationConnectionError",
                                  "relayer config changed")
            /\ (IdentityDrifted \/ ConfigDrifted)
                 => /\ pc' = "sleep"
                    /\ ~InLoop'
                    /\ access_token' \in {access_token, NoToken}
                    /\ refresh_token' \in {refresh_token, NoToken}
                    /\ minted' \in {minted, 0}
            /\ (~IdentityDrifted /\ ~ConfigDrifted)
                 => /\ result' = result
                    /\ relayer_stats' = RelayerStageStatsDefault
                    /\ access_token' = access_token
                    /\ refresh_token' = refresh_token
                    /\ (pc' \in {"generate_new_tokens", "refresh_access_token"})
                          <=> RefreshDue
                    /\ ~RefreshDue => pc' = "consume_packet_stream"
      ]_vars

\* a tick is about to run with the identity and the config both changed and
\* a token due for a refresh, after an earlier tick of the session refreshed
\* a token
C28_Witness ==
    /\ pc = "select"
    /\ ENABLED SelectMetricsTick
    /\ IdentityDrifted
    /\ ConfigDrifted
    /\ RefreshDue
    /\ reported # <<>>
    /\ minted > 2

\* the refresh RPC of a metrics tick is in flight
Refreshing == pc \in {"generate_new_tokens", "refresh_access_token"}

\* every response the relayer has put on the subscription, handled or not,
\* in the order it was sent
Arrived == consumed \o [ i \in 1..Len(packet_stream) |-> packet_stream[i].resp ]

IsPrefixOf(s, t) == Len(s) <= Len(t) /\ SubSeq(t, 1, Len(s)) = s

\* C29: while the refresh RPC of a metrics tick is in flight no response is
\* handled, nothing is sent on a channel and the session does not end on
\* HeartbeatExpired, however old the last heartbeat; what the relayer sends
\* meanwhile queues up behind what was already waiting; and as long as the
\* session lasts the responses are handled one at a time from the front of
\* that queue, so in the order they were sent and none skipped.
C29_RefreshSuspendsTheLoop ==
    [][/\ Refreshing
           => /\ consumed' = consumed
              /\ packet_tx' = packet_tx
              /\ verified_packet_tx' = verified_packet_tx
              /\ heartbeat_tx' = heartbeat_tx
              /\ result'.kind # "HeartbeatExpired"
              /\ InLoop' => IsPrefixOf(packet_stream, packet_stream')
              /\ ~InLoop' => result'.kind \in {"MethodTimeout", "MethodError",
                                               "AuthenticationPermissionDenied"}
       /\ (InLoop /\ InLoop') => Arrived' \in {Arrived} \cup
                                     { Append(Arrived, m) :
                                         m \in {MsgHeartbeat, MsgNone,
                                                MsgBatch(<<ProtoPacket(1)>>)} }
       /\ (InLoop /\ consumed' # consumed /\ pc' # "start")
           => /\ consumed' = Append(consumed, Head(packet_stream).resp)
              /\ InLoop' => packet_stream' = Tail(packet_stream)
      ]_vars

\* a refresh is in flight while a heartbeat and then a batch wait on the
\* subscription, the heartbeat tick is due and the last heartbeat is older
\* than allowed
C29_Witness ==
    /\ Refreshing
    /\ packet_stream = <<StreamSome(MsgHeartbeat),
                         StreamSome(MsgBatch(<<ProtoPacket(1)>>))>>
    /\ now >= heartbeat_check_interval
    /\ now - last_heartbeat_ts > local_config.oldest_allowed_heartbeat

\* the session returns the error e to the supervisor, which starts its
\* backoff: the stream is dropped and no branch of the select runs again
EndsSessionWith(e) ==
    /\ result' = e
    /\ pc' = "sleep"
    /\ wake_at' = now + CONNECTION_BACKOFF_S
    /\ packet_stream' = <<>>

StreamHeadIs(item) ==
    pc = "select" /\ packet_stream # <<>> /\ Head(packet_stream) = item

\* C30: a refresh RPC that times out, is refused or fails, a batch that
\* cannot be sent on the channel the session forwards batches to, a heartbeat
\* that cannot be sent on heartbeat_tx, and an error status on the stream
\* each end the session at that step with that error, and the supervisor
\* sleeps CONNECTION_BACKOFF from then; no step of the loop leaves an error
\* behind and goes on; and while the supervisor sleeps no response is
\* handled, nothing is sent and no stats are reported.
C30_SessionErrorsAreFatal ==
    [][/\ \A outcome \in {"timeout", "denied", "error"} :
            RefreshReturn(outcome, LongLived)
              => EndsSessionWith(
                   IF outcome = "timeout" THEN Err("MethodTimeout", pc)
                   ELSE IF outcome = "denied" /\ pc = "generate_new_tokens"
                     THEN AuthenticationPermissionDenied
                   ELSE Err("MethodError", "status"))
       /\ (/\ SelectMessage
           /\ StreamHeadIs(StreamSome(MsgBatch(<<ProtoPacket(1)>>)))
           /\ (IF local_config.trust_packets THEN "verified_packet_tx"
                                             ELSE "packet_tx") \in disconnected)
            => EndsSessionWith(Err("PacketForwardError", ""))
       /\ (/\ SelectMessage
           /\ StreamHeadIs(StreamSome(MsgHeartbeat))
           /\ "heartbeat_tx" \in disconnected)
            => EndsSessionWith(Err("HeartbeatChannelError", ""))
       /\ (SelectMessage /\ StreamHeadIs(StreamStatus))
            => EndsSessionWith(Err("GrpcError", "status"))
       /\ (InLoop /\ result' # result)
            => ~InLoop' /\ (result' # ResultOk => EndsSessionWith(result'))
       /\ (InLoop /\ InLoop') => result' = result
       /\ pc = "sleep"
            => /\ pc' = "sleep" \/ (pc' = "start" /\ now >= wake_at)
               /\ consumed' = consumed
               /\ reported' = reported
               /\ packet_tx' = packet_tx
               /\ verified_packet_tx' = verified_packet_tx
               /\ heartbeat_tx' = heartbeat_tx
      ]_vars

\* after a heartbeat was forwarded a batch could not be sent, and the
\* supervisor starts its backoff with the PacketForwardError
C30_Witness ==
    /\ result = Err("PacketForwardError", "")
    /\ consumed = <<MsgHeartbeat, MsgBatch(<<ProtoPacket(1)>>)>>
    /\ Len(heartbeat_tx) = 1
    /\ packet_tx = <<>>
    /\ verified_packet_tx = <<>>
    /\ pc = "sleep"
    /\ wake_at = CONNECTION_BACKOFF_S

\* C31: get_tip_account_balances_above_rent_exempt gives one balance for
\* each of the 8 tip accounts: the lamports of the account above the
\* rent-exempt minimum of its data length when it holds at least that
\* minimum, and 0 when it holds less or does not exist; always a u64.
C31_TipBalancesSaturateAtZero ==
    tip_balances.called =>
      /\ DOMAIN tip_balances.balances = { tip_pdas[i] : i \in 1..NumTipPdas }
      /\ Cardinality(DOMAIN tip_balances.balances) = NumTipPdas
      /\ \A account \in DOMAIN tip_balances.balances :
            LET acc == bank.accounts[account]
                rent == IF acc.exists THEN acc.data_len + 1 ELSE 1
            IN /\ tip_balances.balances[account] \in 0..U64_MAX
               /\ tip_balances.balances[account] =
                    IF acc.exists /\ acc.lamports >= rent
                      THEN acc.lamports - rent
                      ELSE 0

\* of the last three tip accounts one is missing, one holds less than the
\* minimum of its data and one holds more
C31_Witness ==
    /\ tip_balances.called
    /\ ~bank.accounts[tip_pdas[NumTipPdas - 2]].exists
    /\ bank.accounts[tip_pdas[NumTipPdas - 1]] = Account(1, 1)
    /\ bank.accounts[tip_pdas[NumTipPdas]] = Account(3, 1)
    /\ tip_balances.balances[tip_pdas[NumTipPdas - 2]] = 0
    /\ tip_balances.balances[tip_pdas[NumTipPdas - 1]] = 0
    /\ tip_balances.balances[tip_pdas[NumTipPdas]] = 1

\* C32: the config an attempt snapshots, and any session runs with,
\* satisfies validate_relayer_config: no attempt takes a snapshot with an
\* empty address or a zero heartbeat duration.
C32_SnapshotIsValidated ==
    /\ [][(pc = "connect_auth_and_stream" /\ pc' # pc)
            => validate_relayer_config(relayer_config)]_vars
    /\ [](local_config # NoConfig => validate_relayer_config(local_config))

\* C33 (as stated): with a relayer that puts a heartbeat on the subscription
\* every second, never later than oldest_allowed_heartbeat after the one
\* before, no session ends with HeartbeatExpired.
C33_PunctualRelayerNeverExpires ==
    [](result.kind # "HeartbeatExpired")

\* the heartbeat tick is about to end the session although a heartbeat waits
\* on the subscription
ExpiresOverHeartbeat ==
    /\ pc = "select"
    /\ now >= heartbeat_check_interval
    /\ HeartbeatIsExpired(last_heartbeat_ts, local_config.oldest_allowed_heartbeat)
    /\ Len(packet_stream) > 0
    /\ packet_stream[1] = StreamSome(MsgHeartbeat)

\* C33 (amended): a session ends with HeartbeatExpired only in its heartbeat
\* tick and only if the loop has handled no heartbeat for more than
\* oldest_allowed_heartbeat, counted from the start of the session or from
\* the last heartbeat it handled; a heartbeat that waits on the subscription
\* does not count and does not prevent it.
C33_ExpiredOnlyIfNoneHandled ==
    /\ [][(InLoop /\ ~InLoop' /\ result'.kind = "HeartbeatExpired")
            => /\ pc = "select"
               /\ now >= heartbeat_check_interval
               /\ now - last_heartbeat_ts > local_config.oldest_allowed_heartbeat]_vars
    /\ [][(ExpiresOverHeartbeat /\ SelectHeartbeatTick)
            => result'.kind = "HeartbeatExpired"]_vars

C33_Witness ==
    /\ ExpiresOverHeartbeat
    /\ ENABLED SelectHeartbeatTick
    /\ packet_stream = <<StreamSome(MsgHeartbeat), StreamSome(MsgHeartbeat)>>

\* the channel the batches of the running session go to
SessionChannel == PacketChannel(local_config.trust_packets)
OtherChannel == PacketChannel(~local_config.trust_packets)
Sent(chan) == IF chan = "packet_tx" THEN packet_tx ELSE verified_packet_tx

\* C34: within one session every batch goes to the channel chosen by the
\* trust_packets of the snapshot, whatever the shared config says by then,
\* and the other packet channel receives nothing from that session.
C34_RoutingFixedBySnapshot ==
    /\ [][(pc = "select" /\ (packet_tx' # packet_tx \/ verified_packet_tx' # verified_packet_tx))
            => /\ Len(Sent(SessionChannel)') = Len(Sent(SessionChannel)) + 1
               /\ Sent(OtherChannel)' = Sent(OtherChannel)]_vars
    /\ [](InLoop => Sent(OtherChannel) = <<>>)
    /\ [](packet_tx = <<>> \/ verified_packet_tx = <<>>)

\* the shared trust_packets was flipped after a first batch went out and the
\* next batch is at the head of the stream
C34_Witness ==
    /\ pc = "select"
    /\ ENABLED SelectMessage
    /\ relayer_config.trust_packets # local_config.trust_packets
    /\ Len(Sent(SessionChannel)) = 1
    /\ Head(packet_stream).item = "Some"
    /\ Head(packet_stream).resp.msg = "Batch"
    /\ Head(packet_stream).resp.packets # <<>>
    /\ SessionChannel \notin disconnected

\* an attempt of connect_auth_and_stream is running
InAttempt == pc \notin {"start", "sleep", "done", "panicked"}
IsError(r) == r.kind \notin {"Ok", "NoResult"}

\* C35: an attempt returns Ok only from the test of the loop that saw exit
\* set; every other return is an error, after which the supervisor sleeps
\* CONNECTION_BACKOFF; so a further attempt starts only out of a sleep that
\* lasted CONNECTION_BACKOFF and followed the error of the attempt before.
C35_OkOnlyOnExit ==
    /\ [][(InAttempt /\ result'.kind = "Ok")
            => (pc = "consume_packet_stream" /\ exit /\ pc' = "start")]_vars
    /\ [][(InAttempt /\ ~InAttempt' /\ pc' # "panicked" /\ result'.kind # "Ok")
            => /\ IsError(result')
               /\ pc' = "sleep"
               /\ wake_at' = now + CONNECTION_BACKOFF_S]_vars
    /\ [][(pc = "sleep" /\ pc' # "sleep")
            => (pc' = "start" /\ now >= wake_at)]_vars
    /\ [][(pc = "sleep" /\ pc' = "sleep")
            => (wake_at' >= wake_at - 1 /\ result' = result)]_vars
    /\ [][(pc = "start" /\ pc' = "connect_auth_and_stream" /\ attempts >= 1)
            => (IsError(result) /\ wake_at = 0 /\ ~exit)]_vars
    /\ [](pc = "start" /\ result.kind = "Ok" => exit)

\* a second attempt, begun after the first one failed and the supervisor
\* slept, has returned Ok on exit
C35_Witness ==
    /\ attempts = 2
    /\ result = ResultOk
    /\ pc = "start"
    /\ exit

\* something went out on a downstream channel during this attempt
SentDownstream ==
    packet_tx # <<>> \/ verified_packet_tx # <<>> \/ heartbeat_tx # <<>>

\* get_tpu_configs returned usable sockets and subscribe_packets opened the
\* stream, both in this attempt
ConfiguredAndSubscribed ==
    /\ Len(steps) = 5
    /\ steps[4].step = "get_tpu_configs" /\ steps[4].ok
    /\ steps[5].step = "subscribe_packets" /\ steps[5].ok

\* C36: nothing is sent on packet_tx, verified_packet_tx or heartbeat_tx
\* before get_tpu_configs and subscribe_packets have both succeeded in the
\* same attempt; an attempt whose handshake fails sends nothing.
C36_NothingSentBeforeHandshake ==
    /\ [](SentDownstream => ConfiguredAndSubscribed)
    /\ []((Len(steps) > 0 /\ ~steps[Len(steps)].ok) => ~SentDownstream)
    /\ [][(packet_tx' # packet_tx \/ verified_packet_tx' # verified_packet_tx
              \/ heartbeat_tx' # heartbeat_tx)
            => (attempts' # attempts \/ (pc = "select" /\ ConfiguredAndSubscribed))]_vars

\* a session forwarded a heartbeat and a batch after its handshake
C36_Witness ==
    /\ ConfiguredAndSubscribed
    /\ Len(heartbeat_tx) = 1
    /\ Len(packet_tx) + Len(verified_packet_tx) = 1

\* the last heartbeat handled is older than the session allows
Stale == now - last_heartbeat_ts > local_config.oldest_allowed_heartbeat

\* C37: the age of the last heartbeat is tested by the heartbeat tick alone.
\* A non-empty batch handled while the last heartbeat is already too old is
\* forwarded and the session goes on; a heartbeat handled then is forwarded
\* and makes last_heartbeat_ts the present, so that the heartbeat tick that
\* follows does not end the session.
C37_AgeTestedOnlyByTick ==
    /\ [][(InLoop /\ result'.kind = "HeartbeatExpired")
            => (pc = "select" /\ now >= heartbeat_check_interval /\ Stale)]_vars
    /\ [][(SelectMessage /\ Stale /\ StreamHeadIs(StreamSome(MsgBatch(<<ProtoPacket(1)>>))))
            => /\ Len(Sent(SessionChannel)') = Len(Sent(SessionChannel)) + 1
               /\ pc' = "consume_packet_stream"
               /\ result' = result
               /\ last_heartbeat_ts' = last_heartbeat_ts]_vars
    /\ [][(SelectMessage /\ Stale /\ StreamHeadIs(StreamSome(MsgHeartbeat)))
            => /\ Len(heartbeat_tx') = Len(heartbeat_tx) + 1
               /\ pc' = "consume_packet_stream"
               /\ result' = result
               /\ last_heartbeat_ts' = now
               /\ ~Stale']_vars
    /\ [][(SelectHeartbeatTick /\ ~Stale)
            => (pc' = "consume_packet_stream" /\ result' = result)]_vars

\* two seconds into a session a batch and then its first heartbeat have been
\* handled, the heartbeat in the present instant with the heartbeat tick
\* due: the session is still running
C37_Witness ==
    /\ InLoop
    /\ session_start = -2
    /\ consumed = <<MsgBatch(<<ProtoPacket(1)>>), MsgHeartbeat>>
    /\ Len(Sent(SessionChannel)) = 1
    /\ last_heartbeat_ts = now
    /\ now >= heartbeat_check_interval

\* what the supervisor and the session hold, apart from the clock
SessionState == <<pc, result, error_count, proxy_error, local_config, keypair,
                  packet_stream, consumed, txVars>>

\* C38: a change of the shared config is seen by a session only through the
\* comparison of a metrics tick.  Replacing the shared config, and putting
\* the snapshot value back, are steps that leave the session as it is; a
\* metrics tick that finds the shared config equal to the snapshot, the
\* identity unchanged, lets the session go on without an error, whatever the
\* shared config was between the ticks.
C38_DriftSeenOnlyAtTick ==
    /\ [][(InLoop /\ relayer_config' # relayer_config) => UNCHANGED SessionState]_vars
    /\ [][(SelectMetricsTick /\ relayer_config = local_config /\ ~IdentityDrifted)
            => /\ InLoop'
               /\ result' = result
               /\ error_count' = error_count
               /\ local_config' = local_config]_vars
    /\ [][(InLoop /\ result'.kind = "AuthenticationConnectionError")
            => (SelectMetricsTick /\ (ConfigDrifted \/ IdentityDrifted))]_vars

\* between two metrics ticks of a session that has passed one tick the shared
\* config differs from the snapshot and can be put back before the next tick
C38_Witness ==
    /\ pc = "select"
    /\ ConfigDrifted
    /\ ~IdentityDrifted
    /\ session_start < now
    /\ now < metrics_and_auth_tick
    /\ ENABLED SetRelayerConfig(local_config)

\* the StakeMetas whose total_tips is more than what their own
\* TipDistributionAccount holds above its rent-exempt minimum
CreditedWithExcess ==
    { i \in 1..Len(StakeMetas) :
        LET acc == TdaAccount(StakeMetas[i].validator_vote_account)
            meta == StakeMetas[i].maybe_tip_distribution_meta
        IN /\ meta.exists
           /\ meta.total_tips
                # acc.lamports - get_minimum_balance_for_rent_exemption(acc.data_len) }

\* C39: in a generated collection at most one StakeMeta has the excess of
\* the tip PDAs in its total_tips, and it is the one of the tip_receiver;
\* when the tip_receiver is not the TipDistributionAccount of this epoch of
\* an epoch vote account with delegations, no StakeMeta has it.
C39_ExcessCreditedAtMostOnce ==
    Generated =>
      /\ Cardinality(CreditedWithExcess) <= 1
      /\ \A i \in CreditedWithExcess :
            /\ TdaAddress(StakeMetas[i].validator_vote_account) = bank.tip_receiver
            /\ StakeMetas[i].maybe_tip_distribution_meta.total_tips
                 = TdaAccount(StakeMetas[i].validator_vote_account).lamports
                     - get_minimum_balance_for_rent_exemption(
                           TdaAccount(StakeMetas[i].validator_vote_account).data_len)
                     + ExcessOfPdas(bank, NumTipPdas)
      /\ ~TipReceiverIsRecorded => CreditedWithExcess = {}

\* of two StakeMetas with a TipDistributionMeta one, the tip_receiver's,
\* carries the excess of the tip PDAs
C39_Witness ==
    /\ Generated
    /\ Len(StakeMetas) = 2
    /\ \A i \in 1..2 : StakeMetas[i].maybe_tip_distribution_meta.exists
    /\ ExcessOfPdas(bank, NumTipPdas) > 0
    /\ Cardinality(CreditedWithExcess) = 1

\* this step is the return of an attempt with an error that is counted
AttemptFailsCounted ==
    /\ InAttempt
    /\ ~InAttempt'
    /\ IsError(result')
    /\ result' # AuthenticationPermissionDenied

\* C40: error_count starts at 0, never decreases and is never reset; it
\* grows, by one, exactly at the return of an attempt with an error other
\* than AuthenticationPermissionDenied, so it is the number of such attempts;
\* a skipped iteration on an invalid config, an attempt that is denied and a
\* session that returns Ok leave it as it is.
C40_ErrorCountCountsFailures ==
    /\ [][error_count' >= error_count]_vars
    /\ [][IF AttemptFailsCounted
            THEN error_count' = error_count + 1
            ELSE error_count' = error_count]_vars
    /\ [][(pc = "start" /\ ~exit /\ ~validate_relayer_config(relayer_config))
            => (pc' \in {"start", "sleep"} /\ error_count' = error_count)]_vars
    /\ [][(InAttempt /\ result' \in {ResultOk, AuthenticationPermissionDenied})
            => error_count' = error_count]_vars
    /\ [](error_count <= attempts)
    /\ [](attempts = 0 => error_count = 0)

\* after a first attempt that failed and was counted, a second one ran a
\* session to its Ok: the count still is 1
C40_Witness ==
    /\ attempts = 2
    /\ error_count = 1
    /\ result = ResultOk
    /\ pc = "start"

====
